---- MODULE Spec2Model ----
(***************************************************************************)
(* A state-machine model of the parse5 HTML tree-construction engine       *)
(* (packages/parse5/lib/parser/index.ts and formatting-element-list.ts).   *)
(* The parser object is the record `p`; every handler of the source is an  *)
(* operator from a parser record (and a token) to the next parser record.  *)
(* The parsing loop and runParsingLoopForCurrentChunk are the actions.     *)
(***************************************************************************)
EXTENDS Integers, Sequences, FiniteSets, TLC

VARIABLES p, shadow, pc, fed, profile, api, calls, hist, simulator, preprocessor

vars == <<p, shadow, pc, fed, profile, api, calls, hist, simulator, preprocessor>>

\* ------------------------------------------------------------------ bounds
\* Longest token sequence the tokenizer hands to the parser before EOF.
MaxTokens == 5
\* Longest token sequence of the adoption-agency profile.
MaxTokensAA == 7
\* Longest token sequence of the nested-block profile (<b>, then blocks).
MaxTokensDeep == 12
\* The tokenizer may run out of input (Hibernation) only before this many
\* tokens have been delivered.
MaxCut == 1
\* How often the tokenizer is asked again after it delivered EOF.
MaxEofFetches == 2

\* ------------------------------------------------------------- constants
AA_OUTER_LOOP_ITER == 8
AA_INNER_LOOP_ITER == 3
NOAH_ARK_CAPACITY == 3

\* Node 1 is the document created by Parser.parse.
DocId == 1

HTML == "html"
MATHML == "mathml"
SVG == "svg"

UNKNOWN == "UNKNOWN"

\* ------------------------------------------------------------- tag names
KnownTags ==
    { "a", "address", "annotation-xml", "applet", "area", "article", "aside",
      "b", "base", "basefont", "bgsound", "big", "blockquote", "body", "br",
      "button", "caption", "center", "code", "col", "colgroup", "dd", "desc",
      "details", "dialog", "dir", "div", "dl", "dt", "em", "embed",
      "fieldset", "figcaption", "figure", "font", "footer", "foreignObject",
      "form", "frame", "frameset", "h1", "h2", "h3", "h4", "h5", "h6", "head",
      "header", "hgroup", "hr", "html", "i", "iframe", "image", "img",
      "input", "keygen", "label", "li", "link", "listing", "main",
      "malignmark", "marquee", "math", "menu", "meta", "mglyph", "mi", "mn",
      "mo", "ms", "mtext", "nav", "nobr", "noembed", "noframes", "noscript",
      "object", "ol", "optgroup", "option", "p", "param", "plaintext", "pre",
      "rb", "rp", "rt", "rtc", "ruby", "s", "script", "section", "select",
      "small", "source", "span", "strike", "strong", "style", "sub",
      "summary", "sup", "svg", "table", "tbody", "td", "template", "textarea",
      "tfoot", "th", "thead", "title", "tr", "track", "tt", "u", "ul", "var",
      "wbr", "xmp" }

getTagID(tagName) ==
    IF tagName \in KnownTags THEN tagName ELSE UNKNOWN

isNumberedHeader(tn) ==
    tn \in {"h1", "h2", "h3", "h4", "h5", "h6"}

TABLE_STRUCTURE_TAGS == {"table", "tbody", "tfoot", "thead", "tr"}

\* The HTML5 "special" category, per namespace.
SPECIAL_ELEMENTS(ns) ==
    CASE ns = HTML ->
           { "address", "applet", "area", "article", "aside", "base",
             "basefont", "bgsound", "blockquote", "body", "br", "button",
             "caption", "center", "col", "colgroup", "dd", "details", "dir",
             "div", "dl", "dt", "embed", "fieldset", "figcaption", "figure",
             "footer", "form", "frame", "frameset", "h1", "h2", "h3", "h4",
             "h5", "h6", "head", "header", "hgroup", "hr", "html", "iframe",
             "img", "input", "li", "link", "listing", "main", "marquee",
             "menu", "meta", "nav", "noembed", "noframes", "noscript",
             "object", "ol", "p", "param", "plaintext", "pre", "script",
             "section", "select", "source", "style", "summary", "table",
             "tbody", "td", "template", "textarea", "tfoot", "th", "thead",
             "title", "tr", "track", "ul", "wbr", "xmp" }
      [] ns = MATHML -> {"mi", "mo", "mn", "ms", "mtext", "annotation-xml"}
      [] ns = SVG -> {"title", "foreignObject", "desc"}
      [] OTHER -> {}

\* ---------------------------------------------------------------- tokens
\* A token of ../common/token.js.  `chars` is a sequence of one-character
\* strings; `location` is the ordinal of the token in the input, or 0 when
\* the tokenizer does not track locations.
Token(type, tagName, attrs, selfClosing, chars) ==
    [ type |-> type, tagName |-> tagName, tagID |-> getTagID(tagName),
      attrs |-> attrs, selfClosing |-> selfClosing, ackSelfClosing |-> FALSE,
      chars |-> chars, forceQuirks |-> FALSE, location |-> 0 ]

StartTag(tagName) == Token("START_TAG", tagName, <<>>, FALSE, <<>>)
StartTagA(tagName, attrs) == Token("START_TAG", tagName, attrs, FALSE, <<>>)
StartTagSC(tagName) == Token("START_TAG", tagName, <<>>, TRUE, <<>>)
EndTag(tagName) == Token("END_TAG", tagName, <<>>, FALSE, <<>>)
Chars(type, chars) == Token(type, "", <<>>, FALSE, chars)
Comment == Token("COMMENT", "", <<>>, FALSE, <<"c">>)
Doctype == Token("DOCTYPE", "html", <<>>, FALSE, <<>>)
EOFToken == Token("EOF", "", <<>>, FALSE, <<>>)
NoToken == Token("NONE", "", <<>>, FALSE, <<>>)

LINE_FEED == "\n"
REPLACEMENT_CHARACTER == "\\uFFFD"

Attr(name, value) == [name |-> name, value |-> value]

getTokenAttr(token, attrName) ==
    LET hits == {i \in 1..Len(token.attrs) : token.attrs[i].name = attrName}
    IN  IF hits = {} THEN "" ELSE token.attrs[CHOOSE i \in hits : \A j \in hits : i <= j].value

\* ------------------------------------------------------------ tree nodes
\* The tree built through the TreeAdapter: `nodes[id]` is the node with
\* handle `id`; handle 0 stands for null / undefined.
NoLoc == [start |-> 0, end |-> 0, endTag |-> FALSE]

NewNode(kind, tagName, ns, attrs, data) ==
    [ kind |-> kind, tagName |-> tagName, ns |-> ns, attrs |-> attrs,
      data |-> data, parentNode |-> 0, childNodes |-> <<>>, content |-> 0,
      loc |-> NoLoc ]

\* An exception leaving the engine (a TypeError of the adapter or of the
\* engine itself when it dereferences undefined).
Throw(s) == [s EXCEPT !.crashed = TRUE]

Mut(s, op, a, b, c) == Append(s.muts, <<op, a, b, c>>)

IndexOf(seq, x) ==
    LET hits == {i \in 1..Len(seq) : seq[i] = x}
    IN  IF hits = {} THEN 0 ELSE CHOOSE i \in hits : \A j \in hits : i <= j

LastIndexOf(seq, x) ==
    LET hits == {i \in 1..Len(seq) : seq[i] = x}
    IN  IF hits = {} THEN 0 ELSE CHOOSE i \in hits : \A j \in hits : i >= j

RemoveAt(seq, i) == SubSeq(seq, 1, i - 1) \o SubSeq(seq, i + 1, Len(seq))

InsertAt(seq, i, x) ==
    IF i < 1 THEN <<x>> \o seq
    ELSE SubSeq(seq, 1, i - 1) \o <<x>> \o SubSeq(seq, i, Len(seq))

LastId(s) == Len(s.nodes)

createElement(s, tagName, ns, attrs) ==
    IF s.crashed THEN s
    ELSE [s EXCEPT !.nodes = Append(@, NewNode("element", tagName, ns, attrs, <<>>)),
                   !.muts = Mut(s, "createElement", 0, 0, tagName)]

createCommentNode(s, data) ==
    IF s.crashed THEN s
    ELSE [s EXCEPT !.nodes = Append(@, NewNode("comment", "", "", <<>>, data)),
                   !.muts = Mut(s, "createCommentNode", 0, 0, "")]

createDocumentFragment(s) ==
    IF s.crashed THEN s
    ELSE [s EXCEPT !.nodes = Append(@, NewNode("fragment", "", "", <<>>, <<>>)),
                   !.muts = Mut(s, "createDocumentFragment", 0, 0, "")]

setTemplateContent(s, tmpl, content) ==
    IF s.crashed THEN s
    ELSE [s EXCEPT !.nodes[tmpl].content = content,
                   !.muts = Mut(s, "setTemplateContent", tmpl, content, "")]

appendChild(s, parentNode, newNode) ==
    IF s.crashed THEN s
    ELSE IF parentNode = 0 \/ newNode = 0 THEN Throw(s)
    ELSE [s EXCEPT !.nodes[parentNode].childNodes = Append(@, newNode),
                   !.nodes[newNode].parentNode = parentNode,
                   !.muts = Mut(s, "appendChild", parentNode, newNode, "")]

insertBefore(s, parentNode, newNode, referenceNode) ==
    IF s.crashed THEN s
    ELSE IF parentNode = 0 \/ newNode = 0 THEN Throw(s)
    ELSE LET kids == s.nodes[parentNode].childNodes
             idx == IndexOf(kids, referenceNode)
         IN  [s EXCEPT !.nodes[parentNode].childNodes =
                           IF idx = 0 THEN InsertAt(kids, Len(kids), newNode)
                           ELSE InsertAt(kids, idx, newNode),
                       !.nodes[newNode].parentNode = parentNode,
                       !.muts = Mut(s, "insertBefore", parentNode, newNode, "")]

detachNode(s, node) ==
    IF s.crashed THEN s
    ELSE IF node = 0 THEN Throw(s)
    ELSE LET par == s.nodes[node].parentNode
         IN  IF par = 0 THEN [s EXCEPT !.muts = Mut(s, "detachNode", node, 0, "")]
             ELSE [s EXCEPT !.nodes[par].childNodes =
                                RemoveAt(@, IndexOf(@, node)),
                            !.nodes[node].parentNode = 0,
                            !.muts = Mut(s, "detachNode", node, 0, "")]

isTextNode(s, node) == node # 0 /\ s.nodes[node].kind = "text"

\* An insertText that never looks at the last child.
insertTextNewNode(s, parentNode, text) ==
    IF s.crashed THEN s
    ELSE IF parentNode = 0 THEN Throw(s)
    ELSE LET s1 == [s EXCEPT !.nodes = Append(@, NewNode("text", "", "", <<>>, text))]
             id == LastId(s1)
         IN  [s1 EXCEPT !.nodes[parentNode].childNodes = Append(@, id),
                        !.nodes[id].parentNode = parentNode,
                        !.muts = Mut(s, "insertText", parentNode, id, text)]

insertText(s, parentNode, text) ==
    IF s.crashed THEN s
    ELSE IF parentNode = 0 THEN Throw(s)
    ELSE LET kids == s.nodes[parentNode].childNodes
             prev == IF Len(kids) > 0 THEN kids[Len(kids)] ELSE 0
         IN  IF isTextNode(s, prev)
             THEN [s EXCEPT !.nodes[prev].data = @ \o text,
                            !.muts = Mut(s, "insertText", parentNode, prev, text)]
             ELSE LET s1 == [s EXCEPT !.nodes = Append(@, NewNode("text", "", "", <<>>, text))]
                      id == LastId(s1)
                  IN  [s1 EXCEPT !.nodes[parentNode].childNodes = Append(@, id),
                                 !.nodes[id].parentNode = parentNode,
                                 !.muts = Mut(s, "insertText", parentNode, id, text)]

insertTextBefore(s, parentNode, text, referenceNode) ==
    IF s.crashed THEN s
    ELSE IF parentNode = 0 THEN Throw(s)
    ELSE LET kids == s.nodes[parentNode].childNodes
             idx == IndexOf(kids, referenceNode)
             prev == IF idx > 1 THEN kids[idx - 1] ELSE 0
         IN  IF isTextNode(s, prev)
             THEN [s EXCEPT !.nodes[prev].data = @ \o text,
                            !.muts = Mut(s, "insertTextBefore", parentNode, prev, text)]
             ELSE LET s1 == [s EXCEPT !.nodes = Append(@, NewNode("text", "", "", <<>>, text))]
                      id == LastId(s1)
                  IN  [s1 EXCEPT !.nodes[parentNode].childNodes =
                                     IF idx = 0 THEN InsertAt(kids, Len(kids), id)
                                     ELSE InsertAt(kids, idx, id),
                                 !.nodes[id].parentNode = parentNode,
                                 !.muts = Mut(s, "insertTextBefore", parentNode, id, text)]

adoptAttributes(s, recipient, attrs) ==
    IF s.crashed THEN s
    ELSE IF recipient = 0 THEN Throw(s)
    ELSE LET have == {s.nodes[recipient].attrs[i].name : i \in 1..Len(s.nodes[recipient].attrs)}
             fresh == SelectSeq(attrs, LAMBDA a : a.name \notin have)
         IN  [s EXCEPT !.nodes[recipient].attrs = @ \o fresh,
                       !.muts = Mut(s, "adoptAttributes", recipient, Len(fresh), "")]

setDocumentType(s, name) ==
    IF s.crashed THEN s
    ELSE LET kids == s.nodes[DocId].childNodes
             old == {i \in 1..Len(kids) : s.nodes[kids[i]].kind = "doctype"}
         IN  IF old # {}
             THEN [s EXCEPT !.nodes[kids[CHOOSE i \in old : TRUE]].tagName = name,
                            !.muts = Mut(s, "setDocumentType", 0, 0, name)]
             ELSE LET s1 == [s EXCEPT !.nodes = Append(@, NewNode("doctype", name, "", <<>>, <<>>))]
                      id == LastId(s1)
                  IN  [s1 EXCEPT !.nodes[DocId].childNodes = Append(@, id),
                                 !.nodes[id].parentNode = DocId,
                                 !.muts = Mut(s, "setDocumentType", 0, id, name)]

setDocumentMode(s, mode) ==
    IF s.crashed THEN s
    ELSE [s EXCEPT !.documentMode = mode,
                   !.muts = Mut(s, "setDocumentMode", 0, 0, mode)]

getNamespaceURI(s, element) == s.nodes[element].ns

getTagName(s, element) == s.nodes[element].tagName

getTemplateContent(s, element) == s.nodes[element].content

setNodeSourceCodeLocation(s, node, loc) ==
    IF s.crashed THEN s
    ELSE IF node = 0 THEN Throw(s)
    ELSE [s EXCEPT !.nodes[node].loc = loc]

updateNodeSourceCodeLocation(s, node, end, endTag) ==
    IF s.crashed THEN s
    ELSE IF node = 0 THEN Throw(s)
    ELSE [s EXCEPT !.nodes[node].loc.end = end,
                   !.nodes[node].loc.endTag = IF endTag THEN TRUE ELSE @]


\* ------------------------------------------------------- foreign content
isMathMLTextIntegrationPoint(tn, ns) ==
    ns = MATHML /\ tn \in {"mi", "mo", "mn", "ms", "mtext"}

isHtmlIntegrationPoint(tn, ns, attrs) ==
    LET enc == {i \in 1..Len(attrs) : attrs[i].name = "encoding"}
    IN  IF ns = MATHML /\ tn = "annotation-xml" /\ enc # {}
        THEN attrs[CHOOSE i \in enc : \A j \in enc : i <= j].value
                 \in {"text/html", "application/xhtml+xml"}
        ELSE ns = SVG /\ tn \in {"foreignObject", "desc", "title"}

isIntegrationPoint(tn, ns, attrs, foreignNS) ==
    \/ (foreignNS \in {"", HTML} /\ isHtmlIntegrationPoint(tn, ns, attrs))
    \/ (foreignNS \in {"", MATHML} /\ isMathMLTextIntegrationPoint(tn, ns))

EXITS_FOREIGN_CONTENT ==
    { "b", "big", "blockquote", "body", "br", "center", "code", "dd", "div",
      "dl", "dt", "em", "embed", "h1", "h2", "h3", "h4", "h5", "h6", "head",
      "hr", "i", "img", "li", "listing", "menu", "meta", "nobr", "ol", "p",
      "pre", "ruby", "s", "small", "span", "strong", "strike", "sub", "sup",
      "table", "tt", "u", "ul", "var" }

causesExit(startTagToken) ==
    \/ /\ startTagToken.tagName = "font"
       /\ \E i \in 1..Len(startTagToken.attrs) :
              startTagToken.attrs[i].name \in {"color", "size", "face"}
    \/ startTagToken.tagName \in EXITS_FOREIGN_CONTENT

adjustTokenSVGTagName(token) ==
    IF token.tagName = "foreignobject"
    THEN [token EXCEPT !.tagName = "foreignObject", !.tagID = "foreignObject"]
    ELSE token

MARKER == 0
NullEntry == -1

\* ---------------------------------------------------------- parser state
\* sourceCodeLocationInfo as the caller passed it.
LocationInfoAsPassed(onParseError, locInfo) == locInfo

\* Parser constructor: "Always enable location info if we report parse
\* errors."
LocationInfoOption(onParseError, locInfo) == locInfo \/ onParseError

\* The Parser object after construction and _bootstrap(document, null).
\* `entries` of activeFormattingElements holds entry handles (0 is MARKER),
\* `entryHeap[h]` is the entry object with handle h.
Bootstrap(onParseError, locInfo, scripting) ==
    [ stopped |-> FALSE,
      insertionMode |-> "INITIAL",
      originalInsertionMode |-> "INITIAL",
      fragmentContext |-> 0,
      fragmentContextID |-> UNKNOWN,
      headElement |-> 0,
      formElement |-> 0,
      pendingScript |-> 0,
      currentToken |-> NoToken,
      considerForeignContent |-> FALSE,
      openElements |-> [items |-> <<>>, tagIDs |-> <<>>, tmplCount |-> 0],
      activeFormattingElements |-> [entries |-> <<>>, bookmark |-> NullEntry],
      entryHeap |-> <<>>,
      tmplInsertionModeStack |-> <<>>,
      pendingCharacterTokens |-> <<>>,
      hasNonWhitespacePendingCharacterToken |-> FALSE,
      framesetOk |-> TRUE,
      skipNextNewLine |-> FALSE,
      fosterParentingEnabled |-> FALSE,
      tokenizer |-> [state |-> "DATA", allowCDATA |-> FALSE,
                     lastStartTagName |-> "", eof |-> FALSE],
      options |-> [scriptingEnabled |-> scripting,
                   sourceCodeLocationInfo |-> LocationInfoOption(onParseError, locInfo),
                   onParseError |-> onParseError],
      nodes |-> <<NewNode("document", "", "", <<>>, <<>>)>>,
      documentMode |-> "no-quirks",
      muts |-> <<>>,
      errors |-> <<>>,
      crashed |-> FALSE,
      dropped |-> 0,
      ackSelfClosing |-> FALSE,
      aaOuter |-> 0,
      aaInner |-> 0,
      aaRecreateIter |-> 0 ]

\* _err without the early return: it calls a sink that is null.
_errUnguarded(s, token, code) ==
    IF s.crashed THEN s
    ELSE IF s.options.onParseError THEN [s EXCEPT !.errors = Append(@, code)]
    ELSE [s EXCEPT !.crashed = TRUE]

\* Parser._err: the error goes to the sink, when there is one.
_err(s, token, code) ==
    IF s.crashed \/ ~s.options.onParseError THEN s
    ELSE [s EXCEPT !.errors = Append(@, code)]


\* ---------------------------------------------------- open element stack
\* items[1] is the bottom of the stack (index 0 of the source), the last
\* item is `current`.  Before the first push `current` is the document.
stackTop(s) == Len(s.openElements.items) - 1

current(s) ==
    IF Len(s.openElements.items) = 0 THEN DocId
    ELSE s.openElements.items[Len(s.openElements.items)]

currentTagId(s) ==
    IF Len(s.openElements.items) = 0 THEN UNKNOWN
    ELSE s.openElements.tagIDs[Len(s.openElements.tagIDs)]

_isInTemplate(s) ==
    currentTagId(s) = "template" /\ getNamespaceURI(s, current(s)) = HTML

currentTmplContentOrNode(s) ==
    IF _isInTemplate(s) THEN getTemplateContent(s, current(s)) ELSE current(s)

_isIntegrationPoint(s, tid, element, foreignNS) ==
    isIntegrationPoint(tid, getNamespaceURI(s, element), s.nodes[element].attrs, foreignNS)

_setContextModes(s, cur, tid) ==
    IF s.crashed THEN s
    ELSE IF cur = 0 THEN Throw(s)
    ELSE LET isHTML == cur = DocId \/ getNamespaceURI(s, cur) = HTML
         IN  [s EXCEPT !.considerForeignContent = ~isHTML,
                       !.tokenizer.allowCDATA =
                           ~isHTML /\ ~_isIntegrationPoint(s, tid, cur, "")]

_setEndLocation(s, element, closingToken) ==
    IF s.nodes[element].loc.start # 0 /\ closingToken.location # 0
    THEN updateNodeSourceCodeLocation(s, element, closingToken.location,
             closingToken.type = "END_TAG"
                 /\ getTagName(s, element) = closingToken.tagName)
    ELSE s

onItemPush(s, node, tid, isTop) ==
    IF isTop /\ stackTop(s) > 0 THEN _setContextModes(s, node, tid) ELSE s

onItemPop(s, node, isTop) ==
    LET s1 == IF s.options.sourceCodeLocationInfo
              THEN _setEndLocation(s, node, s.currentToken) ELSE s
    IN  IF ~isTop THEN s1
        ELSE IF stackTop(s1) = 0 /\ s1.fragmentContext # 0
        THEN _setContextModes(s1, s1.fragmentContext, s1.fragmentContextID)
        ELSE IF stackTop(s1) < 0 THEN Throw(s1)
        ELSE _setContextModes(s1, current(s1), currentTagId(s1))

push(s, element, tagID) ==
    IF s.crashed THEN s
    ELSE LET s1 == [s EXCEPT !.openElements.items = Append(@, element),
                             !.openElements.tagIDs = Append(@, tagID)]
             s2 == IF _isInTemplate(s1)
                   THEN [s1 EXCEPT !.openElements.tmplCount = @ + 1] ELSE s1
         IN  onItemPush(s2, element, tagID, TRUE)

\* One step of pop / shortenToLength: the top leaves the stack and the
\* observer hook runs with the given isTop.
PopTop(s, isTop) ==
    IF s.crashed THEN s
    ELSE IF Len(s.openElements.items) = 0 THEN Throw(s)
    ELSE LET popped == current(s)
             n == Len(s.openElements.items)
             s1 == IF s.openElements.tmplCount > 0 /\ _isInTemplate(s)
                   THEN [s EXCEPT !.openElements.tmplCount = @ - 1] ELSE s
             s2 == [s1 EXCEPT !.openElements.items = SubSeq(@, 1, n - 1),
                              !.openElements.tagIDs = SubSeq(@, 1, n - 1)]
         IN  onItemPop(s2, popped, isTop)

pop(s) == PopTop(s, TRUE)

RECURSIVE shortenToLength(_, _)
shortenToLength(s, idx) ==
    IF s.crashed \/ stackTop(s) < idx THEN s
    ELSE shortenToLength(PopTop(s, stackTop(s) - 1 < idx), idx)

_indexOf(s, element) == LastIndexOf(s.openElements.items, element) - 1

contains(s, element) == _indexOf(s, element) > -1

replace(s, oldElement, newElement) ==
    LET idx == _indexOf(s, oldElement)
    IN  IF s.crashed \/ idx < 0 THEN s
        ELSE [s EXCEPT !.openElements.items[idx + 1] = newElement]

insertAfter(s, referenceElement, newElement, newElementID) ==
    IF s.crashed THEN s
    ELSE LET insertionIdx == _indexOf(s, referenceElement) + 1
             s1 == [s EXCEPT !.openElements.items = InsertAt(@, insertionIdx + 1, newElement),
                             !.openElements.tagIDs = InsertAt(@, insertionIdx + 1, newElementID)]
         IN  onItemPush(s1, current(s1), currentTagId(s1), insertionIdx = stackTop(s1))

remove(s, element) ==
    LET idx == _indexOf(s, element)
    IN  IF s.crashed \/ idx < 0 THEN s
        ELSE IF idx = stackTop(s) THEN pop(s)
        ELSE onItemPop([s EXCEPT !.openElements.items = RemoveAt(@, idx + 1),
                                 !.openElements.tagIDs = RemoveAt(@, idx + 1)],
                       element, FALSE)

\* Index (0-based, -1 when absent) of the topmost HTML-namespace element
\* whose tag id is in tagNames.
_indexOfTagNames(s, tagNames) ==
    LET hits == {i \in 1..Len(s.openElements.items) :
                     /\ s.openElements.tagIDs[i] \in tagNames
                     /\ getNamespaceURI(s, s.openElements.items[i]) = HTML}
    IN  IF hits = {} THEN -1 ELSE (CHOOSE i \in hits : \A j \in hits : i >= j) - 1

popUntilPopped(s, tagNames) ==
    LET idx == _indexOfTagNames(s, tagNames)
    IN  shortenToLength(s, IF idx < 0 THEN 0 ELSE idx)

popUntilTagNamePopped(s, tagName) == popUntilPopped(s, {tagName})

popUntilElementPopped(s, element) ==
    LET idx == _indexOf(s, element)
    IN  shortenToLength(s, IF idx < 0 THEN 0 ELSE idx)

popUntilNumberedHeaderPopped(s) ==
    popUntilPopped(s, {"h1", "h2", "h3", "h4", "h5", "h6"})

popUntilTableCellPopped(s) == popUntilPopped(s, {"td", "th"})

popAllUpToHtmlElement(s) ==
    IF s.crashed THEN s
    ELSE shortenToLength([s EXCEPT !.openElements.tmplCount = 0], 1)

clearBackTo(s, tagNames) == shortenToLength(s, _indexOfTagNames(s, tagNames) + 1)

clearBackToTableContext(s) == clearBackTo(s, {"table", "template", "html"})

clearBackToTableBodyContext(s) ==
    clearBackTo(s, {"tbody", "tfoot", "thead", "template", "html"})

clearBackToTableRowContext(s) == clearBackTo(s, {"tr", "template", "html"})

tryPeekProperlyNestedBodyElement(s) ==
    IF stackTop(s) >= 1 /\ s.openElements.tagIDs[2] = "body"
    THEN s.openElements.items[2] ELSE 0

getCommonAncestor(s, element) ==
    LET idx == _indexOf(s, element) - 1
    IN  IF idx >= 0 THEN s.openElements.items[idx + 1] ELSE 0

isRootHtmlElementCurrent(s) ==
    stackTop(s) = 0 /\ s.openElements.tagIDs[1] = "html"


\* Scope queries.  ScopeWalk scans from the top: the first element that is
\* a target answers TRUE, the first that is a barrier answers FALSE, and an
\* exhausted stack answers TRUE.
ScopeWalk(s, IsTarget(_), IsBarrier(_)) ==
    LET n == Len(s.openElements.items)
        stops == {i \in 1..n : IsTarget(i) \/ IsBarrier(i)}
    IN  IF stops = {} THEN TRUE
        ELSE IsTarget(CHOOSE i \in stops : \A j \in stops : i >= j)

SCOPING_ELEMENT(tn, ns) ==
    \/ ns = HTML /\ tn \in {"applet", "caption", "html", "marquee", "object",
                             "table", "td", "template", "th"}
    \/ ns = MATHML /\ tn \in {"annotation-xml", "mi", "mn", "mo", "ms", "mtext"}
    \/ ns = SVG /\ tn \in {"desc", "foreignObject", "title"}

ItemNs(s, i) == getNamespaceURI(s, s.openElements.items[i])

hasInScope(s, tagName) ==
    ScopeWalk(s, LAMBDA i : s.openElements.tagIDs[i] = tagName /\ ItemNs(s, i) = HTML,
                 LAMBDA i : SCOPING_ELEMENT(s.openElements.tagIDs[i], ItemNs(s, i)))

hasNumberedHeaderInScope(s) ==
    ScopeWalk(s, LAMBDA i : isNumberedHeader(s.openElements.tagIDs[i]) /\ ItemNs(s, i) = HTML,
                 LAMBDA i : SCOPING_ELEMENT(s.openElements.tagIDs[i], ItemNs(s, i)))

hasInListItemScope(s, tagName) ==
    ScopeWalk(s, LAMBDA i : s.openElements.tagIDs[i] = tagName /\ ItemNs(s, i) = HTML,
                 LAMBDA i : \/ SCOPING_ELEMENT(s.openElements.tagIDs[i], ItemNs(s, i))
                            \/ (s.openElements.tagIDs[i] \in {"ul", "ol"} /\ ItemNs(s, i) = HTML))

hasInButtonScope(s, tagName) ==
    ScopeWalk(s, LAMBDA i : s.openElements.tagIDs[i] = tagName /\ ItemNs(s, i) = HTML,
                 LAMBDA i : \/ SCOPING_ELEMENT(s.openElements.tagIDs[i], ItemNs(s, i))
                            \/ (s.openElements.tagIDs[i] = "button" /\ ItemNs(s, i) = HTML))

hasInTableScope(s, tagName) ==
    ScopeWalk(s, LAMBDA i : s.openElements.tagIDs[i] = tagName /\ ItemNs(s, i) = HTML,
                 LAMBDA i : s.openElements.tagIDs[i] \in {"table", "template", "html"}
                            /\ ItemNs(s, i) = HTML)

hasTableBodyContextInTableScope(s) ==
    ScopeWalk(s, LAMBDA i : s.openElements.tagIDs[i] \in {"tbody", "thead", "tfoot"}
                            /\ ItemNs(s, i) = HTML,
                 LAMBDA i : s.openElements.tagIDs[i] \in {"table", "template", "html"}
                            /\ ItemNs(s, i) = HTML)

hasInSelectScope(s, tagName) ==
    ScopeWalk(s, LAMBDA i : s.openElements.tagIDs[i] = tagName /\ ItemNs(s, i) = HTML,
                 LAMBDA i : s.openElements.tagIDs[i] \notin {"option", "optgroup"}
                            /\ ItemNs(s, i) = HTML)

IMPLICIT_END_TAG_REQUIRED ==
    {"dd", "dt", "li", "optgroup", "option", "p", "rb", "rp", "rt", "rtc"}

IMPLICIT_END_TAG_REQUIRED_THOROUGHLY ==
    IMPLICIT_END_TAG_REQUIRED
        \cup {"caption", "colgroup", "tbody", "td", "tfoot", "th", "thead", "tr"}

\* pop while the top's tag id is in `tags` (and is not `exclusionId`)
RECURSIVE PopWhile(_, _)
PopWhile(s, tags) ==
    IF s.crashed \/ stackTop(s) < 0 \/ currentTagId(s) \notin tags THEN s
    ELSE PopWhile(pop(s), tags)

generateImpliedEndTags(s) == PopWhile(s, IMPLICIT_END_TAG_REQUIRED)

generateImpliedEndTagsThoroughly(s) ==
    PopWhile(s, IMPLICIT_END_TAG_REQUIRED_THOROUGHLY)

generateImpliedEndTagsWithExclusion(s, exclusionId) ==
    PopWhile(s, IMPLICIT_END_TAG_REQUIRED \ {exclusionId})


\* ------------------------------------------- list of formatting elements
\* entries[1] is the most recent entry (index 0 of the source).
Entries(s) == s.activeFormattingElements.entries

EntryElement(s, entry) == s.entryHeap[entry].element

EntryToken(s, entry) == s.entryHeap[entry].token

\* 0-based indices of the entries before the first marker whose element
\* has the new element's tag name, namespace and number of attributes.
_getNoahArkConditionCandidates(s, newElement) ==
    LET es == Entries(s)
        markers == {i \in 1..Len(es) : es[i] = MARKER}
        limit == IF markers = {} THEN Len(es)
                 ELSE (CHOOSE i \in markers : \A j \in markers : i <= j) - 1
        ok(i) == LET e == EntryElement(s, es[i])
                 IN  /\ getTagName(s, e) = getTagName(s, newElement)
                     /\ getNamespaceURI(s, e) = getNamespaceURI(s, newElement)
                     /\ Len(s.nodes[e].attrs) = Len(s.nodes[newElement].attrs)
        idxs == {i \in 1..limit : ok(i)}
        Sorted[k \in 0..Cardinality(idxs)] ==
            IF k = 0 THEN <<>>
            ELSE LET prev == Sorted[k - 1]
                     rest == idxs \ {prev[j].idx + 1 : j \in 1..Len(prev)}
                     m == CHOOSE i \in rest : \A j \in rest : i <= j
                 IN  Append(prev, [idx |-> m - 1,
                                   attrs |-> s.nodes[EntryElement(s, es[m])].attrs])
    IN  Sorted[Cardinality(idxs)]

SameAttrs(cAttrs, neAttrs) ==
    \A i \in 1..Len(cAttrs) :
        \E j \in 1..Len(neAttrs) :
            /\ neAttrs[j].name = cAttrs[i].name
            /\ neAttrs[j].value = cAttrs[i].value
            /\ \A k \in (j + 1)..Len(neAttrs) : neAttrs[k].name # cAttrs[i].name

RECURSIVE NoahArkLoop(_, _, _, _, _)
NoahArkLoop(es, candidates, i, validCandidates, neAttrs) ==
    IF i > Len(candidates) THEN es
    ELSE IF SameAttrs(candidates[i].attrs, neAttrs)
    THEN NoahArkLoop(IF validCandidates + 1 >= NOAH_ARK_CAPACITY
                         /\ candidates[i].idx + 1 <= Len(es)
                     THEN RemoveAt(es, candidates[i].idx + 1) ELSE es,
                     candidates, i + 1, validCandidates + 1, neAttrs)
    ELSE NoahArkLoop(es, candidates, i + 1, validCandidates, neAttrs)

\* An ark that drops the most recent of the matching entries.
_ensureNoahArkConditionNewest(s, newElement) ==
    IF Len(Entries(s)) < NOAH_ARK_CAPACITY THEN s
    ELSE LET candidates == _getNoahArkConditionCandidates(s, newElement)
             valid == {i \in 1..Len(candidates) :
                          SameAttrs(candidates[i].attrs, s.nodes[newElement].attrs)}
         IN  IF Cardinality(valid) < NOAH_ARK_CAPACITY THEN s
             ELSE [s EXCEPT !.activeFormattingElements.entries =
                       RemoveAt(@, candidates[CHOOSE i \in valid :
                                                 \A j \in valid : i <= j].idx + 1)]

_ensureNoahArkCondition(s, newElement) ==
    IF Len(Entries(s)) < NOAH_ARK_CAPACITY THEN s
    ELSE LET candidates == _getNoahArkConditionCandidates(s, newElement)
         IN  IF Len(candidates) < NOAH_ARK_CAPACITY THEN s
             ELSE [s EXCEPT !.activeFormattingElements.entries =
                       NoahArkLoop(@, candidates, 1, 0, s.nodes[newElement].attrs)]

insertMarker(s) ==
    IF s.crashed THEN s
    ELSE [s EXCEPT !.activeFormattingElements.entries = <<MARKER>> \o @]

NewEntry(s, element, token) ==
    [s EXCEPT !.entryHeap = Append(@, [element |-> element, token |-> token])]

pushElement(s, element, token) ==
    IF s.crashed THEN s
    ELSE LET s1 == NewEntry(_ensureNoahArkCondition(s, element), element, token)
         IN  [s1 EXCEPT !.activeFormattingElements.entries = <<Len(s1.entryHeap)>> \o @]

\* An insertion one place further from the front than the bookmark.
insertElementBehindBookmark(s, element, token) ==
    IF s.crashed THEN s
    ELSE LET s1 == NewEntry(s, element, token)
             es == Entries(s)
         IN  [s1 EXCEPT !.activeFormattingElements.entries =
                            InsertAt(es, IndexOf(es, s.activeFormattingElements.bookmark) + 1,
                                     Len(s1.entryHeap))]

insertElementAfterBookmark(s, element, token) ==
    IF s.crashed THEN s
    ELSE LET s1 == NewEntry(s, element, token)
             es == Entries(s)
             bookmarkIdx == IndexOf(es, s.activeFormattingElements.bookmark) - 1
             at == IF bookmarkIdx >= 0 THEN bookmarkIdx
                   ELSE IF Len(es) = 0 THEN 0 ELSE Len(es) - 1
         IN  [s1 EXCEPT !.activeFormattingElements.entries =
                            InsertAt(es, at + 1, Len(s1.entryHeap))]

removeEntry(s, entry) ==
    LET entryIndex == IndexOf(Entries(s), entry) - 1
    IN  IF s.crashed \/ entryIndex < 0 THEN s
        ELSE [s EXCEPT !.activeFormattingElements.entries = RemoveAt(@, entryIndex + 1)]

clearToLastMarker(s) ==
    LET markerIdx == IndexOf(Entries(s), MARKER) - 1
    IN  IF s.crashed THEN s
        ELSE IF markerIdx >= 0
        THEN [s EXCEPT !.activeFormattingElements.entries =
                           SubSeq(@, markerIdx + 2, Len(@))]
        ELSE [s EXCEPT !.activeFormattingElements.entries = <<>>]

\* The entry handle, or NullEntry.
getElementEntryInScopeWithTagName(s, tagName) ==
    LET es == Entries(s)
        hits == {i \in 1..Len(es) :
                    es[i] = MARKER \/ getTagName(s, EntryElement(s, es[i])) = tagName}
        first == CHOOSE i \in hits : \A j \in hits : i <= j
    IN  IF hits = {} \/ es[first] = MARKER THEN NullEntry ELSE es[first]

getElementEntry(s, element) ==
    LET es == Entries(s)
        hits == {i \in 1..Len(es) : es[i] # MARKER /\ EntryElement(s, es[i]) = element}
    IN  IF hits = {} THEN NullEntry ELSE es[CHOOSE i \in hits : \A j \in hits : i <= j]


\* -------------------------------------------------------- tree mutation
_isElementCausesFosterParenting(tn) == tn \in TABLE_STRUCTURE_TAGS

\* Text in a table stays in the table.
_shouldFosterParentNever(s) == FALSE

_shouldFosterParentOnInsertion(s) ==
    s.fosterParentingEnabled /\ _isElementCausesFosterParenting(currentTagId(s))

\* [parent, beforeElement]; 0 stands for null / undefined.
\* A search that takes the lowest template or table of the stack.
_findFosterParentingLocationBottomUp(s) ==
    LET items == s.openElements.items
        tagIDs == s.openElements.tagIDs
        hits == {i \in 1..Len(items) :
                    \/ (tagIDs[i] = "template" /\ getNamespaceURI(s, items[i]) = HTML)
                    \/ tagIDs[i] = "table"}
        i == CHOOSE k \in hits : \A j \in hits : k <= j
    IN  IF hits = {}
        THEN [parent |-> IF Len(items) > 0 THEN items[1] ELSE 0, beforeElement |-> 0]
        ELSE IF tagIDs[i] = "template"
        THEN [parent |-> getTemplateContent(s, items[i]), beforeElement |-> 0]
        ELSE IF s.nodes[items[i]].parentNode # 0
        THEN [parent |-> s.nodes[items[i]].parentNode, beforeElement |-> items[i]]
        ELSE [parent |-> IF i > 1 THEN items[i - 1] ELSE 0, beforeElement |-> 0]

_findFosterParentingLocation(s) ==
    LET items == s.openElements.items
        tagIDs == s.openElements.tagIDs
        hits == {i \in 1..Len(items) :
                    \/ (tagIDs[i] = "template" /\ getNamespaceURI(s, items[i]) = HTML)
                    \/ tagIDs[i] = "table"}
        i == CHOOSE k \in hits : \A j \in hits : k >= j
    IN  IF hits = {}
        THEN [parent |-> IF Len(items) > 0 THEN items[1] ELSE 0, beforeElement |-> 0]
        ELSE IF tagIDs[i] = "template"
        THEN [parent |-> getTemplateContent(s, items[i]), beforeElement |-> 0]
        ELSE IF s.nodes[items[i]].parentNode # 0
        THEN [parent |-> s.nodes[items[i]].parentNode, beforeElement |-> items[i]]
        ELSE [parent |-> IF i > 1 THEN items[i - 1] ELSE 0, beforeElement |-> 0]

_fosterParentElement(s, element) ==
    LET location == _findFosterParentingLocation(s)
    IN  IF location.beforeElement # 0
        THEN insertBefore(s, location.parent, element, location.beforeElement)
        ELSE appendChild(s, location.parent, element)

ElementLoc(s, location) ==
    [start |-> location, end |-> 0, endTag |-> FALSE]

_attachElementToTree(s, element, location) ==
    LET s1 == IF s.options.sourceCodeLocationInfo
              THEN setNodeSourceCodeLocation(s, element, ElementLoc(s, location))
              ELSE s
    IN  IF _shouldFosterParentOnInsertion(s1)
        THEN _fosterParentElement(s1, element)
        ELSE appendChild(s1, currentTmplContentOrNode(s1), element)

_appendElement(s, token, namespaceURI) ==
    LET s1 == createElement(s, token.tagName, namespaceURI, token.attrs)
    IN  _attachElementToTree(s1, LastId(s1), token.location)

_insertElement(s, token, namespaceURI) ==
    LET s1 == createElement(s, token.tagName, namespaceURI, token.attrs)
        element == LastId(s1)
    IN  push(_attachElementToTree(s1, element, token.location), element, token.tagID)

_insertFakeElement(s, tagName, tagID) ==
    LET s1 == createElement(s, tagName, HTML, <<>>)
        element == LastId(s1)
    IN  push(_attachElementToTree(s1, element, 0), element, tagID)

_insertTemplate(s, token) ==
    LET s1 == createElement(s, token.tagName, HTML, token.attrs)
        tmpl == LastId(s1)
        s2 == createDocumentFragment(s1)
        content == LastId(s2)
        s3 == setTemplateContent(s2, tmpl, content)
        s4 == push(_attachElementToTree(s3, tmpl, token.location), tmpl, token.tagID)
    IN  IF s4.options.sourceCodeLocationInfo
        THEN setNodeSourceCodeLocation(s4, content, NoLoc) ELSE s4

\* A fake root that is appended to the document and not pushed.
_insertFakeRootElementUnpushed(s) ==
    LET s1 == createElement(s, "html", HTML, <<>>)
    IN  appendChild(s1, current(s1), LastId(s1))

_insertFakeRootElement(s) ==
    LET s1 == createElement(s, "html", HTML, <<>>)
        element == LastId(s1)
        s2 == IF s1.options.sourceCodeLocationInfo
              THEN setNodeSourceCodeLocation(s1, element, NoLoc) ELSE s1
    IN  push(appendChild(s2, current(s2), element), element, "html")

_appendCommentNode(s, token, parent) ==
    LET s1 == createCommentNode(s, token.chars)
        commentNode == LastId(s1)
        s2 == appendChild(s1, parent, commentNode)
    IN  IF s2.options.sourceCodeLocationInfo
        THEN setNodeSourceCodeLocation(s2, commentNode, ElementLoc(s2, token.location))
        ELSE s2

\* _insertCharacters, the location of the text node `textNode`.
SetTextNodeLocation(s, textNode, token) ==
    IF textNode = 0 THEN Throw(s)
    ELSE IF s.nodes[textNode].loc.start # 0
    THEN updateNodeSourceCodeLocation(s, textNode, token.location, FALSE)
    ELSE IF s.options.sourceCodeLocationInfo
    THEN setNodeSourceCodeLocation(s, textNode,
             [start |-> token.location, end |-> token.location, endTag |-> FALSE])
    ELSE s

\* _insertCharacters, the text node the characters went to: the sibling
\* before `beforeElement`, or the last child.
InsertedTextNode(siblings, beforeElement) ==
    LET textNodeIdx == IF beforeElement # 0
                       THEN LastIndexOf(siblings, beforeElement) - 1
                       ELSE Len(siblings)
    IN  IF textNodeIdx >= 1 THEN siblings[textNodeIdx] ELSE 0

\* _insertCharacters after the text was inserted, which left the parser as s.
LocateInsertedText(s, parent, beforeElement, token) ==
    IF s.crashed \/ token.location = 0 THEN s
    ELSE SetTextNodeLocation(s, InsertedTextNode(s.nodes[parent].childNodes, beforeElement),
                             token)

\* _insertCharacters with the place of the text decided.
InsertCharactersAt(s, parent, beforeElement, token) ==
    LocateInsertedText(IF beforeElement # 0
                       THEN insertTextBefore(s, parent, token.chars, beforeElement)
                       ELSE insertText(s, parent, token.chars),
                       parent, beforeElement, token)

InsertCharactersFostered(s, location, token) ==
    InsertCharactersAt(s, location.parent, location.beforeElement, token)

_insertCharacters(s, token) ==
    IF s.crashed THEN s
    ELSE IF _shouldFosterParentOnInsertion(s)
    THEN InsertCharactersFostered(s, _findFosterParentingLocation(s), token)
    ELSE InsertCharactersAt(s, currentTmplContentOrNode(s), 0, token)

RECURSIVE _adoptNodes(_, _, _)
_adoptNodes(s, donor, recipient) ==
    IF s.crashed \/ Len(s.nodes[donor].childNodes) = 0 THEN s
    ELSE LET child == s.nodes[donor].childNodes[1]
         IN  _adoptNodes(appendChild(detachNode(s, child), recipient, child),
                         donor, recipient)

_switchToTextParsing(s, currentToken, nextTokenizerState) ==
    LET s1 == _insertElement(s, currentToken, HTML)
    IN  [s1 EXCEPT !.tokenizer.state = nextTokenizerState,
                   !.originalInsertionMode = s1.insertionMode,
                   !.insertionMode = "TEXT"]

_getAdjustedCurrentElement(s) ==
    IF stackTop(s) = 0 /\ s.fragmentContext # 0 THEN s.fragmentContext ELSE current(s)


\* ------------------------------------------------------ token processing
isCharacterToken(token) ==
    token.type \in {"CHARACTER", "NULL_CHARACTER", "WHITESPACE_CHARACTER"}

_shouldProcessTokenInForeignContent(s, token) ==
    LET cur == _getAdjustedCurrentElement(s)
        curTagId == IF stackTop(s) = 0 /\ s.fragmentContext # 0
                    THEN s.fragmentContextID ELSE currentTagId(s)
        ns == getNamespaceURI(s, cur)
        isMathMLTextStartTag ==
            token.type = "START_TAG" /\ token.tagID \notin {"mglyph", "malignmark"}
    IN  IF /\ token.type = "START_TAG" /\ token.tagID = "svg"
           /\ getTagName(s, cur) = "annotation-xml" /\ ns = MATHML
        THEN FALSE
        ELSE IF /\ (isMathMLTextStartTag \/ isCharacterToken(token))
                /\ _isIntegrationPoint(s, curTagId, cur, MATHML)
        THEN FALSE
        ELSE IF /\ (token.type = "START_TAG" \/ isCharacterToken(token))
                /\ _isIntegrationPoint(s, curTagId, cur, HTML)
        THEN FALSE
        ELSE token.type # "EOF"

\* Reconstruction of the active formatting elements: the entries in front
\* of the first marker / open entry are re-inserted, oldest first.
RECURSIVE ReconstructFrom(_, _)
ReconstructFrom(s, i) ==
    IF s.crashed \/ i < 1 THEN s
    ELSE LET entry == Entries(s)[i]
             s1 == _insertElement(s, EntryToken(s, entry),
                                  getNamespaceURI(s, EntryElement(s, entry)))
         IN  ReconstructFrom([s1 EXCEPT !.entryHeap[entry].element = current(s1)], i - 1)

\* Formatting elements that are closed stay closed.
_reconstructNothing(s) == s

\* A reconstruction of the frontmost entry alone.
_reconstructFrontmostOnly(s) ==
    LET es == Entries(s)
    IN  IF Len(es) = 0 \/ es[1] = MARKER \/ contains(s, EntryElement(s, es[1]))
        THEN s
        ELSE ReconstructFrom(s, 1)

_reconstructActiveFormattingElements(s) ==
    LET es == Entries(s)
        stops == {i \in 1..Len(es) : es[i] = MARKER \/ contains(s, EntryElement(s, es[i]))}
        endIndex == IF stops = {} THEN -1
                    ELSE (CHOOSE i \in stops : \A j \in stops : i <= j) - 1
        unopenIdx == IF endIndex < 0 THEN Len(es) - 1 ELSE endIndex - 1
    IN  IF Len(es) = 0 THEN s ELSE ReconstructFrom(s, unopenIdx + 1)

_closeTableCell(s) ==
    LET s1 == clearToLastMarker(popUntilTableCellPopped(generateImpliedEndTags(s)))
    IN  [s1 EXCEPT !.insertionMode = "IN_ROW"]

_closePElement(s) ==
    popUntilTagNamePopped(generateImpliedEndTagsWithExclusion(s, "p"), "p")

_resetInsertionModeForSelect(s, selectIdx) ==
    LET tagIDs == s.openElements.tagIDs
        stops == {i \in 1..(selectIdx - 1) : tagIDs[i + 1] \in {"template", "table"}}
        top == CHOOSE i \in stops : \A j \in stops : i >= j
    IN  IF selectIdx > 0 /\ stops # {} /\ tagIDs[top + 1] = "table"
        THEN "IN_SELECT_IN_TABLE" ELSE "IN_SELECT"

\* The insertion mode chosen for stack index i (0-based), or "" when the
\* walk goes on to the element below.
ResetModeAt(s, i) ==
    LET tid == IF i = 0 /\ s.fragmentContext # 0
               THEN s.fragmentContextID ELSE s.openElements.tagIDs[i + 1]
    IN  CASE tid = "tr" -> "IN_ROW"
          [] tid \in {"tbody", "thead", "tfoot"} -> "IN_TABLE_BODY"
          [] tid = "caption" -> "IN_CAPTION"
          [] tid = "colgroup" -> "IN_COLUMN_GROUP"
          [] tid = "table" -> "IN_TABLE"
          [] tid = "body" -> "IN_BODY"
          [] tid = "frameset" -> "IN_FRAMESET"
          [] tid = "select" -> _resetInsertionModeForSelect(s, i)
          [] tid = "template" ->
                 IF Len(s.tmplInsertionModeStack) > 0
                 THEN s.tmplInsertionModeStack[1] ELSE "undefined"
          [] tid = "html" -> IF s.headElement # 0 THEN "AFTER_HEAD" ELSE "BEFORE_HEAD"
          [] tid \in {"td", "th"} /\ i > 0 -> "IN_CELL"
          [] tid = "head" /\ i > 0 -> "IN_HEAD"
          [] OTHER -> ""

\* A reset that takes the lowest matching entry of the stack.
_resetInsertionModeBottomUp(s) ==
    LET hits == {i \in 0..stackTop(s) : ResetModeAt(s, i) # ""}
    IN  IF s.crashed THEN s
        ELSE IF hits = {} THEN [s EXCEPT !.insertionMode = "IN_BODY"]
        ELSE [s EXCEPT !.insertionMode =
                  ResetModeAt(s, CHOOSE i \in hits : \A j \in hits : i <= j)]

_resetInsertionMode(s) ==
    LET hits == {i \in 0..stackTop(s) : ResetModeAt(s, i) # ""}
    IN  IF s.crashed THEN s
        ELSE IF hits = {} THEN [s EXCEPT !.insertionMode = "IN_BODY"]
        ELSE [s EXCEPT !.insertionMode =
                  ResetModeAt(s, CHOOSE i \in hits : \A j \in hits : i >= j)]

_isSpecialElement(s, element, id) ==
    id \in SPECIAL_ELEMENTS(getNamespaceURI(s, element))

appendComment(s, token) == _appendCommentNode(s, token, currentTmplContentOrNode(s))

appendCommentToRootHtmlElement(s, token) ==
    _appendCommentNode(s, token,
        IF Len(s.openElements.items) > 0 THEN s.openElements.items[1] ELSE 0)

appendCommentToDocument(s, token) == _appendCommentNode(s, token, DocId)

RECURSIVE SetEndLocations(_, _, _)
SetEndLocations(s, i, token) ==
    IF s.crashed \/ i < 1 THEN s
    ELSE SetEndLocations(_setEndLocation(s, s.openElements.items[i], token), i - 1, token)

\* stopParsing that also closes what is still open: the stack is popped
\* down to the root and the formatting list is cleared.
stopParsingClosingAll(s, token) ==
    IF s.crashed THEN s
    ELSE LET s1 == popAllUpToHtmlElement([s EXCEPT !.stopped = TRUE])
         IN  [s1 EXCEPT !.activeFormattingElements.entries = <<>>]

stopParsing(s, token) ==
    IF s.crashed THEN s
    ELSE LET s1 == [s EXCEPT !.stopped = TRUE]
         IN  IF token.location # 0
             THEN SetEndLocations(s1, Len(s1.openElements.items), token)
             ELSE s1


\* ------------------------------------------------------ adoption agency
Max(a, b) == IF a >= b THEN a ELSE b

\* The "any other end tag" steps of the in-body mode.
genericEndTagInBody(s, token) ==
    LET items == s.openElements.items
        tagIDs == s.openElements.tagIDs
        matches(i) == /\ token.tagID = tagIDs[i + 1]
                      /\ (token.tagID # UNKNOWN
                          \/ getTagName(s, items[i + 1]) = token.tagName)
        stops == {i \in 1..stackTop(s) :
                      matches(i) \/ _isSpecialElement(s, items[i + 1], tagIDs[i + 1])}
        i == CHOOSE k \in stops : \A j \in stops : k >= j
    IN  IF s.crashed \/ stops = {} \/ ~matches(i) THEN s
        ELSE LET s1 == generateImpliedEndTagsWithExclusion(s, token.tagName)
             IN  IF stackTop(s1) >= i THEN shortenToLength(s1, i) ELSE s1

\* Steps 5-8 with the entry of a closed element left in the list.
aaObtainFormattingElementEntryKeepingEntry(s, token) ==
    LET entry == getElementEntryInScopeWithTagName(s, token.tagName)
    IN  IF entry = NullEntry
        THEN [s |-> genericEndTagInBody(s, token), entry |-> NullEntry]
        ELSE IF ~contains(s, EntryElement(s, entry)) \/ ~hasInScope(s, token.tagID)
        THEN [s |-> s, entry |-> NullEntry]
        ELSE [s |-> s, entry |-> entry]

\* Steps 5-8: [s, entry]; entry is NullEntry when the algorithm stops.
aaObtainFormattingElementEntry(s, token) ==
    LET entry == getElementEntryInScopeWithTagName(s, token.tagName)
    IN  IF entry = NullEntry
        THEN [s |-> genericEndTagInBody(s, token), entry |-> NullEntry]
        ELSE IF ~contains(s, EntryElement(s, entry))
        THEN [s |-> removeEntry(s, entry), entry |-> NullEntry]
        ELSE IF ~hasInScope(s, token.tagID)
        THEN [s |-> s, entry |-> NullEntry]
        ELSE [s |-> s, entry |-> entry]

\* Steps 9 and 10 with the formatting element left on the stack when
\* there is no furthest block.
aaObtainFurthestBlockAboveOnly(s, formattingElementEntry) ==
    LET items == s.openElements.items
        fe == EntryElement(s, formattingElementEntry)
        at == LastIndexOf(items, fe)
        special == {i \in (at + 1)..Len(items) :
                        _isSpecialElement(s, items[i], s.openElements.tagIDs[i])}
    IN  IF special # {}
        THEN [s |-> s, furthestBlock |-> items[CHOOSE i \in special : \A j \in special : i <= j]]
        ELSE [s |-> removeEntry(shortenToLength(s, at), formattingElementEntry),
              furthestBlock |-> 0]

\* Steps 9 and 10: [s, furthestBlock]; furthestBlock 0 when there is none.
aaObtainFurthestBlock(s, formattingElementEntry) ==
    LET items == s.openElements.items
        fe == EntryElement(s, formattingElementEntry)
        at == LastIndexOf(items, fe)
        special == {i \in (at + 1)..Len(items) :
                        _isSpecialElement(s, items[i], s.openElements.tagIDs[i])}
    IN  IF special # {}
        THEN [s |-> s, furthestBlock |-> items[CHOOSE i \in special : \A j \in special : i <= j]]
        ELSE [s |-> removeEntry(shortenToLength(s, IF at - 1 < 0 THEN 0 ELSE at - 1),
                                formattingElementEntry),
              furthestBlock |-> 0]

\* Step 13.7
aaRecreateElementFromEntry(s, elementEntry) ==
    LET old == EntryElement(s, elementEntry)
        tok == EntryToken(s, elementEntry)
        s1 == createElement(s, tok.tagName, getNamespaceURI(s, old), tok.attrs)
        newElement == LastId(s1)
        s2 == replace(s1, old, newElement)
    IN  [s2 EXCEPT !.entryHeap[elementEntry].element = newElement]

\* The overflow test one iteration too late.
CounterOverflowLate(elementEntry, i) ==
    elementEntry # NullEntry /\ i > AA_INNER_LOOP_ITER

\* const counterOverflow = elementEntry && i >= AA_INNER_LOOP_ITER;
CounterOverflow(elementEntry, i) ==
    elementEntry # NullEntry /\ i >= AA_INNER_LOOP_ITER

\* Step 13, one iteration per call: [s, lastElement].
RECURSIVE aaInnerLoop(_, _, _, _, _, _)
aaInnerLoop(s, furthestBlock, formattingElement, lastElement, element, i) ==
    IF s.crashed \/ element = formattingElement
    THEN [s |-> s, lastElement |-> lastElement]
    ELSE IF element = 0 THEN [s |-> Throw(s), lastElement |-> lastElement]
    ELSE LET s0 == [s EXCEPT !.aaInner = Max(@, i + 1)]
             nextElement == getCommonAncestor(s0, element)
             elementEntry == getElementEntry(s0, element)
             counterOverflow == CounterOverflow(elementEntry, i)
         IN  IF elementEntry = NullEntry \/ counterOverflow
             THEN aaInnerLoop(
                      remove(IF counterOverflow THEN removeEntry(s0, elementEntry) ELSE s0,
                             element),
                      furthestBlock, formattingElement, lastElement, nextElement, i + 1)
             ELSE LET s1 == aaRecreateElementFromEntry(s0, elementEntry)
                      newElement == LastId(s1)
                      s2 == IF lastElement = furthestBlock
                            THEN [s1 EXCEPT !.activeFormattingElements.bookmark = elementEntry]
                            ELSE s1
                      s3 == appendChild(detachNode(s2, lastElement), newElement, lastElement)
                  IN  aaInnerLoop([s3 EXCEPT !.aaRecreateIter = Max(@, i + 1)],
                                  furthestBlock, formattingElement, newElement,
                                  nextElement, i + 1)

\* Step 14
aaInsertLastNodeInCommonAncestor(s, commonAncestor, lastElement) ==
    LET tid == getTagID(getTagName(s, commonAncestor))
    IN  IF _isElementCausesFosterParenting(tid)
        THEN _fosterParentElement(s, lastElement)
        ELSE IF tid = "template" /\ getNamespaceURI(s, commonAncestor) = HTML
        THEN appendChild(s, getTemplateContent(s, commonAncestor), lastElement)
        ELSE appendChild(s, commonAncestor, lastElement)

\* Steps 15-19
aaReplaceFormattingElement(s, furthestBlock, formattingElementEntry) ==
    LET fe == EntryElement(s, formattingElementEntry)
        token == EntryToken(s, formattingElementEntry)
        s1 == createElement(s, token.tagName, getNamespaceURI(s, fe), token.attrs)
        newElement == LastId(s1)
        s2 == appendChild(_adoptNodes(s1, furthestBlock, newElement), furthestBlock, newElement)
        s3 == removeEntry(insertElementAfterBookmark(s2, newElement, token),
                          formattingElementEntry)
    IN  insertAfter(remove(s3, fe), furthestBlock, newElement, token.tagID)

\* callAdoptionAgency, the rest of an iteration after aaInnerLoop has left
\* the parser as s and returned lastElement.
AAInsertAndReplace(s, lastElement, commonAncestor, furthestBlock, formattingElementEntry) ==
    aaReplaceFormattingElement(
        IF commonAncestor # 0
        THEN aaInsertLastNodeInCommonAncestor(detachNode(s, lastElement), commonAncestor,
                                              lastElement)
        ELSE detachNode(s, lastElement),
        furthestBlock, formattingElementEntry)

AAAfterInnerLoop(r, formattingElement, furthestBlock, formattingElementEntry) ==
    AAInsertAndReplace(r.s, r.lastElement, getCommonAncestor(r.s, formattingElement),
                       furthestBlock, formattingElementEntry)

\* callAdoptionAgency, one iteration from the bookmark on.
AAIteration(s, formattingElement, furthestBlock, formattingElementEntry) ==
    AAAfterInnerLoop(
        aaInnerLoop([s EXCEPT !.activeFormattingElements.bookmark = formattingElementEntry],
                    furthestBlock, formattingElement, furthestBlock,
                    getCommonAncestor(s, furthestBlock), 0),
        formattingElement, furthestBlock, formattingElementEntry)

RECURSIVE AAOuterLoop(_, _, _)

\* r is what aaObtainFurthestBlock returned.
AAWithFurthestBlock(r, formattingElementEntry, token, i) ==
    IF r.furthestBlock = 0 THEN r.s
    ELSE AAOuterLoop(AAIteration(r.s, EntryElement(r.s, formattingElementEntry),
                                 r.furthestBlock, formattingElementEntry),
                     token, i + 1)

\* r is what aaObtainFormattingElementEntry returned.
AAWithFormattingElementEntry(r, token, i) ==
    IF r.entry = NullEntry THEN r.s
    ELSE AAWithFurthestBlock(aaObtainFurthestBlock(r.s, r.entry), r.entry, token, i)

AAOuterLoop(s, token, i) ==
    IF s.crashed \/ ~(i < AA_OUTER_LOOP_ITER) THEN s
    ELSE AAWithFormattingElementEntry(
             aaObtainFormattingElementEntry([s EXCEPT !.aaOuter = Max(@, i + 1)], token),
             token, i)

callAdoptionAgency(s, token) == AAOuterLoop(s, token, 0)


\* -------------------------------------------------------- insertion modes
\* A handler runs on the parser unless an exception is already unwinding.
RECURSIVE Dispatch(_, _, _)


SetMode(s, mode) == IF s.crashed THEN s ELSE [s EXCEPT !.insertionMode = mode]

Ack(s) == IF s.crashed THEN s ELSE [s EXCEPT !.ackSelfClosing = TRUE]

\* The "initial" insertion mode
doctypeInInitialMode(s, token) ==
    LET s1 == setDocumentType(s, token.tagName)
        kids == s1.nodes[DocId].childNodes
        dts == {i \in 1..Len(kids) : s1.nodes[kids[i]].kind = "doctype"}
        s2 == IF token.location # 0 /\ dts # {}
              THEN setNodeSourceCodeLocation(s1,
                       kids[CHOOSE i \in dts : \A j \in dts : i <= j],
                       ElementLoc(s1, token.location))
              ELSE s1
        mode == IF token.forceQuirks THEN "quirks" ELSE "no-quirks"
        s3 == IF token.tagName # "html" THEN _err(s2, token, "nonConformingDoctype") ELSE s2
    IN  SetMode(setDocumentMode(s3, mode), "BEFORE_HTML")

tokenInInitialMode(s, token) ==
    LET s1 == setDocumentMode(_err(s, token, "missingDoctype"), "quirks")
    IN  Dispatch("modeBeforeHtml", SetMode(s1, "BEFORE_HTML"), token)

modeInitial(s, token) ==
    CASE token.type = "COMMENT" -> appendComment(s, token)
      [] token.type = "DOCTYPE" -> Dispatch("doctypeInInitialMode", s, token)
      [] token.type = "WHITESPACE_CHARACTER" -> s
      [] OTHER -> Dispatch("tokenInInitialMode", s, token)

\* The "before html" insertion mode
\* tokenBeforeHtml without the insertion of the root element.
tokenBeforeHtmlNoRoot(s, token) ==
    Dispatch("modeBeforeHead", SetMode(s, "BEFORE_HEAD"), token)

tokenBeforeHtml(s, token) ==
    Dispatch("modeBeforeHead", SetMode(_insertFakeRootElement(s), "BEFORE_HEAD"), token)

modeBeforeHtml(s, token) ==
    CASE token.type \in {"CHARACTER", "NULL_CHARACTER", "EOF"} -> Dispatch("tokenBeforeHtml", s, token)
      [] token.type = "COMMENT" -> appendComment(s, token)
      [] token.type = "START_TAG" ->
             IF token.tagID = "html"
             THEN SetMode(_insertElement(s, token, HTML), "BEFORE_HEAD")
             ELSE Dispatch("tokenBeforeHtml", s, token)
      [] token.type = "END_TAG" ->
             IF token.tagID \in {"html", "head", "body", "br"}
             THEN Dispatch("tokenBeforeHtml", s, token) ELSE s
      [] OTHER -> s

\* The "before head" insertion mode
tokenBeforeHead(s, token) ==
    LET s1 == _insertFakeElement(s, "head", "head")
    IN  IF s1.crashed THEN s1
        ELSE Dispatch("modeInHead", [s1 EXCEPT !.headElement = current(s1),
                                   !.insertionMode = "IN_HEAD"], token)

startTagBeforeHead(s, token) ==
    CASE token.tagID = "html" -> Dispatch("startTagInBody", s, token)
      [] token.tagID = "head" ->
             LET s1 == _insertElement(s, token, HTML)
             IN  IF s1.crashed THEN s1
                 ELSE [s1 EXCEPT !.headElement = current(s1), !.insertionMode = "IN_HEAD"]
      [] OTHER -> Dispatch("tokenBeforeHead", s, token)

modeBeforeHead(s, token) ==
    CASE token.type \in {"CHARACTER", "NULL_CHARACTER", "EOF"} -> Dispatch("tokenBeforeHead", s, token)
      [] token.type = "COMMENT" -> appendComment(s, token)
      [] token.type = "DOCTYPE" -> _err(s, token, "misplacedDoctype")
      [] token.type = "START_TAG" -> Dispatch("startTagBeforeHead", s, token)
      [] token.type = "END_TAG" ->
             IF token.tagID \in {"head", "body", "html", "br"}
             THEN Dispatch("tokenBeforeHead", s, token)
             ELSE _err(s, token, "endTagWithoutMatchingOpenElement")
      [] OTHER -> s

\* The "in head" insertion mode
tokenInHead(s, token) == Dispatch("modeAfterHead", SetMode(pop(s), "AFTER_HEAD"), token)

startTagInHead(s, token) ==
    CASE token.tagID = "html" -> Dispatch("startTagInBody", s, token)
      [] token.tagID \in {"base", "basefont", "bgsound", "link", "meta"} ->
             Ack(_appendElement(s, token, HTML))
      [] token.tagID = "title" -> _switchToTextParsing(s, token, "RCDATA")
      [] token.tagID = "noscript" ->
             IF s.options.scriptingEnabled
             THEN _switchToTextParsing(s, token, "RAWTEXT")
             ELSE SetMode(_insertElement(s, token, HTML), "IN_HEAD_NO_SCRIPT")
      [] token.tagID \in {"noframes", "style"} -> _switchToTextParsing(s, token, "RAWTEXT")
      [] token.tagID = "script" -> _switchToTextParsing(s, token, "SCRIPT_DATA")
      [] token.tagID = "template" ->
             LET s1 == insertMarker(_insertTemplate(s, token))
             IN  IF s1.crashed THEN s1
                 ELSE [s1 EXCEPT !.framesetOk = FALSE,
                                 !.insertionMode = "IN_TEMPLATE",
                                 !.tmplInsertionModeStack = <<"IN_TEMPLATE">> \o @]
      [] token.tagID = "head" -> _err(s, token, "misplacedStartTagForHeadElement")
      [] OTHER -> Dispatch("tokenInHead", s, token)

\* A closure that leaves the template-mode stack as it is.
templateEndTagInHeadKeepingMode(s, token) ==
    IF s.openElements.tmplCount > 0
    THEN LET s1 == generateImpliedEndTagsThoroughly(s)
             s2 == IF currentTagId(s1) # "template"
                   THEN _err(s1, token, "closingOfElementWithOpenChildElements") ELSE s1
             s3 == clearToLastMarker(popUntilTagNamePopped(s2, "template"))
         IN  IF s3.crashed THEN s3 ELSE _resetInsertionMode(s3)
    ELSE _err(s, token, "endTagWithoutMatchingOpenElement")

templateEndTagInHead(s, token) ==
    IF s.openElements.tmplCount > 0
    THEN LET s1 == generateImpliedEndTagsThoroughly(s)
             s2 == IF currentTagId(s1) # "template"
                   THEN _err(s1, token, "closingOfElementWithOpenChildElements") ELSE s1
             s3 == clearToLastMarker(popUntilTagNamePopped(s2, "template"))
         IN  IF s3.crashed THEN s3
             ELSE _resetInsertionMode(
                      [s3 EXCEPT !.tmplInsertionModeStack = Tail(@)])
    ELSE _err(s, token, "endTagWithoutMatchingOpenElement")

endTagInHead(s, token) ==
    CASE token.tagID = "head" -> SetMode(pop(s), "AFTER_HEAD")
      [] token.tagID \in {"body", "br", "html"} -> Dispatch("tokenInHead", s, token)
      [] token.tagID = "template" -> Dispatch("templateEndTagInHead", s, token)
      [] OTHER -> _err(s, token, "endTagWithoutMatchingOpenElement")

modeInHead(s, token) ==
    CASE token.type \in {"CHARACTER", "NULL_CHARACTER", "EOF"} -> Dispatch("tokenInHead", s, token)
      [] token.type = "WHITESPACE_CHARACTER" -> _insertCharacters(s, token)
      [] token.type = "COMMENT" -> appendComment(s, token)
      [] token.type = "DOCTYPE" -> _err(s, token, "misplacedDoctype")
      [] token.type = "START_TAG" -> Dispatch("startTagInHead", s, token)
      [] token.type = "END_TAG" -> Dispatch("endTagInHead", s, token)
      [] OTHER -> s


\* The "in head no script" insertion mode
tokenInHeadNoScript(s, token) ==
    LET errCode == IF token.type = "EOF" THEN "openElementsLeftAfterEof"
                   ELSE "disallowedContentInNoscriptInHead"
    IN  Dispatch("modeInHead", SetMode(pop(_err(s, token, errCode)), "IN_HEAD"), token)

startTagInHeadNoScript(s, token) ==
    CASE token.tagID = "html" -> Dispatch("startTagInBody", s, token)
      [] token.tagID \in {"basefont", "bgsound", "head", "link", "meta",
                          "noframes", "style"} -> Dispatch("startTagInHead", s, token)
      [] token.tagID = "noscript" -> _err(s, token, "nestedNoscriptInHead")
      [] OTHER -> Dispatch("tokenInHeadNoScript", s, token)

endTagInHeadNoScript(s, token) ==
    CASE token.tagID = "noscript" -> SetMode(pop(s), "IN_HEAD")
      [] token.tagID = "br" -> Dispatch("tokenInHeadNoScript", s, token)
      [] OTHER -> _err(s, token, "endTagWithoutMatchingOpenElement")

modeInHeadNoScript(s, token) ==
    CASE token.type \in {"CHARACTER", "NULL_CHARACTER", "EOF"} -> Dispatch("tokenInHeadNoScript", s, token)
      [] token.type = "WHITESPACE_CHARACTER" -> _insertCharacters(s, token)
      [] token.type = "COMMENT" -> appendComment(s, token)
      [] token.type = "DOCTYPE" -> _err(s, token, "misplacedDoctype")
      [] token.type = "START_TAG" -> Dispatch("startTagInHeadNoScript", s, token)
      [] token.type = "END_TAG" -> Dispatch("endTagInHeadNoScript", s, token)
      [] OTHER -> s

\* The "after head" insertion mode
tokenAfterHead(s, token) ==
    Dispatch("modeInBody", SetMode(_insertFakeElement(s, "body", "body"), "IN_BODY"), token)

startTagAfterHead(s, token) ==
    CASE token.tagID = "html" -> Dispatch("startTagInBody", s, token)
      [] token.tagID = "body" ->
             LET s1 == _insertElement(s, token, HTML)
             IN  IF s1.crashed THEN s1
                 ELSE [s1 EXCEPT !.framesetOk = FALSE, !.insertionMode = "IN_BODY"]
      [] token.tagID = "frameset" -> SetMode(_insertElement(s, token, HTML), "IN_FRAMESET")
      [] token.tagID \in {"base", "basefont", "bgsound", "link", "meta", "noframes",
                          "script", "style", "template", "title"} ->
             LET s1 == _err(s, token, "abandonedHeadElementChild")
                 s2 == IF s1.headElement = 0 THEN Throw(s1)
                       ELSE push(s1, s1.headElement, "head")
                 s3 == Dispatch("startTagInHead", s2, token)
             IN  remove(s3, s3.headElement)
      [] token.tagID = "head" -> _err(s, token, "misplacedStartTagForHeadElement")
      [] OTHER -> Dispatch("tokenAfterHead", s, token)

endTagAfterHead(s, token) ==
    CASE token.tagID \in {"body", "html", "br"} -> Dispatch("tokenAfterHead", s, token)
      [] token.tagID = "template" -> Dispatch("endTagInHead", s, token)
      [] OTHER -> _err(s, token, "endTagWithoutMatchingOpenElement")

modeAfterHead(s, token) ==
    CASE token.type \in {"CHARACTER", "NULL_CHARACTER", "EOF"} -> Dispatch("tokenAfterHead", s, token)
      [] token.type = "WHITESPACE_CHARACTER" -> _insertCharacters(s, token)
      [] token.type = "COMMENT" -> appendComment(s, token)
      [] token.type = "DOCTYPE" -> _err(s, token, "misplacedDoctype")
      [] token.type = "START_TAG" -> Dispatch("startTagAfterHead", s, token)
      [] token.type = "END_TAG" -> Dispatch("endTagAfterHead", s, token)
      [] OTHER -> s


\* The "in body" insertion mode: start tags
ClosePInButtonScope(s) ==
    IF hasInButtonScope(s, "p") THEN _closePElement(s) ELSE s

SetFramesetNotOk(s) == IF s.crashed THEN s ELSE [s EXCEPT !.framesetOk = FALSE]

htmlStartTagInBody(s, token) ==
    IF s.openElements.tmplCount = 0
    THEN adoptAttributes(s, IF Len(s.openElements.items) > 0
                            THEN s.openElements.items[1] ELSE 0, token.attrs)
    ELSE s

bodyStartTagInBody(s, token) ==
    LET bodyElement == tryPeekProperlyNestedBodyElement(s)
    IN  IF bodyElement # 0 /\ s.openElements.tmplCount = 0
        THEN adoptAttributes(SetFramesetNotOk(s), bodyElement, token.attrs)
        ELSE s

framesetStartTagInBody(s, token) ==
    LET bodyElement == tryPeekProperlyNestedBodyElement(s)
    IN  IF s.framesetOk /\ bodyElement # 0
        THEN SetMode(_insertElement(popAllUpToHtmlElement(detachNode(s, bodyElement)),
                                    token, HTML), "IN_FRAMESET")
        ELSE s

addressStartTagInBody(s, token) == _insertElement(ClosePInButtonScope(s), token, HTML)

numberedHeaderStartTagInBody(s, token) ==
    LET s1 == ClosePInButtonScope(s)
        s2 == IF isNumberedHeader(currentTagId(s1)) THEN pop(s1) ELSE s1
    IN  _insertElement(s2, token, HTML)

preStartTagInBody(s, token) ==
    LET s1 == _insertElement(ClosePInButtonScope(s), token, HTML)
    IN  IF s1.crashed THEN s1
        ELSE [s1 EXCEPT !.skipNextNewLine = TRUE, !.framesetOk = FALSE]

formStartTagInBody(s, token) ==
    LET inTemplate == s.openElements.tmplCount > 0
    IN  IF s.formElement = 0 \/ inTemplate
        THEN LET s1 == _insertElement(ClosePInButtonScope(s), token, HTML)
             IN  IF ~inTemplate /\ ~s1.crashed
                 THEN [s1 EXCEPT !.formElement = current(s1)] ELSE s1
        ELSE s

listItemStartTagInBody(s, token) ==
    LET tn == token.tagID
        items == s.openElements.items
        tagIDs == s.openElements.tagIDs
        closes(i) == \/ (tn = "li" /\ tagIDs[i] = "li")
                     \/ (tn \in {"dd", "dt"} /\ tagIDs[i] \in {"dd", "dt"})
        blocks(i) == /\ tagIDs[i] \notin {"address", "div", "p"}
                     /\ _isSpecialElement(s, items[i], tagIDs[i])
        stops == {i \in 1..Len(items) : closes(i) \/ blocks(i)}
        i == CHOOSE k \in stops : \A j \in stops : k >= j
        closeTn == IF tn = "li" THEN "li" ELSE getTagName(s, items[i])
        s1 == SetFramesetNotOk(s)
        s2 == IF stops # {} /\ closes(i)
              THEN popUntilTagNamePopped(
                       generateImpliedEndTagsWithExclusion(s1, closeTn), tagIDs[i])
              ELSE s1
    IN  _insertElement(ClosePInButtonScope(s2), token, HTML)

plaintextStartTagInBody(s, token) ==
    LET s1 == _insertElement(ClosePInButtonScope(s), token, HTML)
    IN  IF s1.crashed THEN s1 ELSE [s1 EXCEPT !.tokenizer.state = "PLAINTEXT"]

buttonStartTagInBody(s, token) ==
    LET s1 == IF hasInScope(s, "button")
              THEN popUntilTagNamePopped(generateImpliedEndTags(s), "button") ELSE s
    IN  SetFramesetNotOk(
            _insertElement(_reconstructActiveFormattingElements(s1), token, HTML))

bStartTagInBody(s, token) ==
    LET s1 == _insertElement(_reconstructActiveFormattingElements(s), token, HTML)
    IN  pushElement(s1, current(s1), token)

aStartTagInBody(s, token) ==
    LET activeElementEntry == getElementEntryInScopeWithTagName(s, "a")
        s1 == Dispatch("callAdoptionAgency", s, token)
        s2 == removeEntry(remove(s1, EntryElement(s1, activeElementEntry)),
                          activeElementEntry)
    IN  Dispatch("bStartTagInBody", IF activeElementEntry # NullEntry THEN s2 ELSE s, token)

nobrStartTagInBody(s, token) ==
    LET s1 == _reconstructActiveFormattingElements(s)
        s2 == IF hasInScope(s1, "nobr")
              THEN _reconstructActiveFormattingElements(Dispatch("callAdoptionAgency", s1, token))
              ELSE s1
        s3 == _insertElement(s2, token, HTML)
    IN  pushElement(s3, current(s3), token)

appletStartTagInBody(s, token) ==
    SetFramesetNotOk(insertMarker(
        _insertElement(_reconstructActiveFormattingElements(s), token, HTML)))

tableStartTagInBody(s, token) ==
    LET s1 == IF s.documentMode # "quirks" THEN ClosePInButtonScope(s) ELSE s
    IN  SetMode(SetFramesetNotOk(_insertElement(s1, token, HTML)), "IN_TABLE")

areaStartTagInBody(s, token) ==
    Ack(SetFramesetNotOk(
        _appendElement(_reconstructActiveFormattingElements(s), token, HTML)))

isHiddenInput(token) == getTokenAttr(token, "type") = "hidden"

inputStartTagInBody(s, token) ==
    LET s1 == _appendElement(_reconstructActiveFormattingElements(s), token, HTML)
    IN  Ack(IF ~isHiddenInput(token) THEN SetFramesetNotOk(s1) ELSE s1)

hrStartTagInBody(s, token) ==
    Ack(SetFramesetNotOk(_appendElement(ClosePInButtonScope(s), token, HTML)))

imageStartTagInBody(s, token) ==
    Dispatch("areaStartTagInBody", s, [token EXCEPT !.tagName = "img", !.tagID = "img"])

textareaStartTagInBody(s, token) ==
    LET s1 == _insertElement(s, token, HTML)
    IN  IF s1.crashed THEN s1
        ELSE [s1 EXCEPT !.skipNextNewLine = TRUE,
                        !.tokenizer.state = "RCDATA",
                        !.originalInsertionMode = s1.insertionMode,
                        !.framesetOk = FALSE,
                        !.insertionMode = "TEXT"]

xmpStartTagInBody(s, token) ==
    _switchToTextParsing(
        SetFramesetNotOk(_reconstructActiveFormattingElements(ClosePInButtonScope(s))),
        token, "RAWTEXT")

selectStartTagInBody(s, token) ==
    LET s1 == SetFramesetNotOk(
                  _insertElement(_reconstructActiveFormattingElements(s), token, HTML))
    IN  SetMode(s1, IF s1.insertionMode \in {"IN_TABLE", "IN_CAPTION", "IN_TABLE_BODY",
                                             "IN_ROW", "IN_CELL"}
                    THEN "IN_SELECT_IN_TABLE" ELSE "IN_SELECT")

optgroupStartTagInBody(s, token) ==
    LET s1 == IF currentTagId(s) = "option" THEN pop(s) ELSE s
    IN  _insertElement(_reconstructActiveFormattingElements(s1), token, HTML)

rbStartTagInBody(s, token) ==
    _insertElement(IF hasInScope(s, "ruby") THEN generateImpliedEndTags(s) ELSE s,
                   token, HTML)

rtStartTagInBody(s, token) ==
    _insertElement(IF hasInScope(s, "ruby")
                   THEN generateImpliedEndTagsWithExclusion(s, "rtc") ELSE s,
                   token, HTML)

\* mathStartTagInBody and svgStartTagInBody
foreignStartTagInBody(s, token, ns) ==
    LET s1 == _reconstructActiveFormattingElements(s)
    IN  Ack(IF token.selfClosing THEN _appendElement(s1, token, ns)
            ELSE _insertElement(s1, token, ns))

genericStartTagInBody(s, token) ==
    _insertElement(_reconstructActiveFormattingElements(s), token, HTML)


FormattingTags ==
    {"i", "s", "b", "u", "em", "tt", "big", "code", "font", "small", "strike", "strong"}

AddressLikeStartTags ==
    { "p", "dl", "ol", "ul", "div", "dir", "nav", "main", "menu", "aside",
      "center", "figure", "footer", "header", "hgroup", "dialog", "details",
      "address", "article", "section", "summary", "fieldset", "blockquote",
      "figcaption" }

AddressLikeEndTags ==
    (AddressLikeStartTags \ {"p"}) \cup {"pre", "listing"}

startTagInBody(s, token) ==
    LET id == token.tagID
    IN  CASE id \in FormattingTags -> Dispatch("bStartTagInBody", s, token)
          [] id = "a" -> Dispatch("aStartTagInBody", s, token)
          [] isNumberedHeader(id) -> Dispatch("numberedHeaderStartTagInBody", s, token)
          [] id \in AddressLikeStartTags -> Dispatch("addressStartTagInBody", s, token)
          [] id \in {"li", "dd", "dt"} -> Dispatch("listItemStartTagInBody", s, token)
          [] id \in {"br", "img", "wbr", "area", "embed", "keygen"} ->
                 Dispatch("areaStartTagInBody", s, token)
          [] id = "hr" -> Dispatch("hrStartTagInBody", s, token)
          [] id \in {"rb", "rtc"} -> Dispatch("rbStartTagInBody", s, token)
          [] id \in {"rt", "rp"} -> Dispatch("rtStartTagInBody", s, token)
          [] id \in {"pre", "listing"} -> Dispatch("preStartTagInBody", s, token)
          [] id = "xmp" -> Dispatch("xmpStartTagInBody", s, token)
          [] id = "svg" -> foreignStartTagInBody(s, token, SVG)
          [] id = "html" -> Dispatch("htmlStartTagInBody", s, token)
          [] id \in {"base", "link", "meta", "style", "title", "script", "bgsound",
                     "basefont", "template"} -> Dispatch("startTagInHead", s, token)
          [] id = "body" -> Dispatch("bodyStartTagInBody", s, token)
          [] id = "form" -> Dispatch("formStartTagInBody", s, token)
          [] id = "nobr" -> Dispatch("nobrStartTagInBody", s, token)
          [] id = "math" -> foreignStartTagInBody(s, token, MATHML)
          [] id = "table" -> Dispatch("tableStartTagInBody", s, token)
          [] id = "input" -> Dispatch("inputStartTagInBody", s, token)
          [] id \in {"param", "track", "source"} -> Ack(_appendElement(s, token, HTML))
          [] id = "image" -> Dispatch("imageStartTagInBody", s, token)
          [] id = "button" -> Dispatch("buttonStartTagInBody", s, token)
          [] id \in {"applet", "object", "marquee"} -> Dispatch("appletStartTagInBody", s, token)
          [] id = "iframe" -> _switchToTextParsing(SetFramesetNotOk(s), token, "RAWTEXT")
          [] id = "select" -> Dispatch("selectStartTagInBody", s, token)
          [] id \in {"option", "optgroup"} -> Dispatch("optgroupStartTagInBody", s, token)
          [] id = "noembed" -> _switchToTextParsing(s, token, "RAWTEXT")
          [] id = "frameset" -> Dispatch("framesetStartTagInBody", s, token)
          [] id = "textarea" -> Dispatch("textareaStartTagInBody", s, token)
          [] id = "noscript" ->
                 IF s.options.scriptingEnabled
                 THEN _switchToTextParsing(s, token, "RAWTEXT")
                 ELSE Dispatch("genericStartTagInBody", s, token)
          [] id = "plaintext" -> Dispatch("plaintextStartTagInBody", s, token)
          [] id \in {"col", "th", "td", "tr", "head", "frame", "tbody", "tfoot",
                     "thead", "caption", "colgroup"} -> s
          [] OTHER -> Dispatch("genericStartTagInBody", s, token)

\* The "in body" insertion mode: end tags
bodyEndTagInBody(s, token) ==
    IF hasInScope(s, "body")
    THEN LET s1 == SetMode(s, "AFTER_BODY")
             bodyElement == tryPeekProperlyNestedBodyElement(s1)
         IN  IF s1.options.sourceCodeLocationInfo /\ bodyElement # 0
             THEN _setEndLocation(s1, bodyElement, token) ELSE s1
    ELSE s

htmlEndTagInBody(s, token) ==
    IF hasInScope(s, "body") THEN Dispatch("modeAfterBody", SetMode(s, "AFTER_BODY"), token) ELSE s

addressEndTagInBody(s, token) ==
    IF hasInScope(s, token.tagID)
    THEN popUntilTagNamePopped(generateImpliedEndTags(s), token.tagID) ELSE s

formEndTagInBody(s) ==
    LET inTemplate == s.openElements.tmplCount > 0
        formElement == s.formElement
        s1 == IF ~inTemplate THEN [s EXCEPT !.formElement = 0] ELSE s
    IN  IF (formElement # 0 \/ inTemplate) /\ hasInScope(s1, "form")
        THEN LET s2 == generateImpliedEndTags(s1)
             IN  IF inTemplate THEN popUntilTagNamePopped(s2, "form")
                 ELSE IF formElement # 0 THEN remove(s2, formElement)
                 ELSE s2
        ELSE s1

pEndTagInBody(s) ==
    _closePElement(IF ~hasInButtonScope(s, "p") THEN _insertFakeElement(s, "p", "p") ELSE s)

liEndTagInBody(s) ==
    IF hasInListItemScope(s, "li")
    THEN popUntilTagNamePopped(generateImpliedEndTagsWithExclusion(s, "li"), "li") ELSE s

ddEndTagInBody(s, token) ==
    IF hasInScope(s, token.tagID)
    THEN popUntilTagNamePopped(generateImpliedEndTagsWithExclusion(s, token.tagName),
                               token.tagID)
    ELSE s

numberedHeaderEndTagInBody(s) ==
    IF hasNumberedHeaderInScope(s)
    THEN popUntilNumberedHeaderPopped(generateImpliedEndTags(s)) ELSE s

appletEndTagInBody(s, token) ==
    IF hasInScope(s, token.tagID)
    THEN clearToLastMarker(popUntilTagNamePopped(generateImpliedEndTags(s), token.tagID))
    ELSE s

brEndTagInBody(s) ==
    SetFramesetNotOk(pop(_insertFakeElement(_reconstructActiveFormattingElements(s),
                                            "br", "br")))

endTagInBody(s, token) ==
    LET id == token.tagID
    IN  CASE id \in (FormattingTags \cup {"a", "nobr"}) -> Dispatch("callAdoptionAgency", s, token)
          [] id = "p" -> pEndTagInBody(s)
          [] id \in AddressLikeEndTags -> Dispatch("addressEndTagInBody", s, token)
          [] id = "li" -> liEndTagInBody(s)
          [] id \in {"dd", "dt"} -> Dispatch("ddEndTagInBody", s, token)
          [] isNumberedHeader(id) -> numberedHeaderEndTagInBody(s)
          [] id = "br" -> brEndTagInBody(s)
          [] id = "body" -> Dispatch("bodyEndTagInBody", s, token)
          [] id = "html" -> Dispatch("htmlEndTagInBody", s, token)
          [] id = "form" -> formEndTagInBody(s)
          [] id \in {"applet", "object", "marquee"} -> Dispatch("appletEndTagInBody", s, token)
          [] id = "template" -> Dispatch("endTagInHead", s, token)
          [] OTHER -> genericEndTagInBody(s, token)

eofInBody(s, token) ==
    IF Len(s.tmplInsertionModeStack) > 0 THEN Dispatch("eofInTemplate", s, token)
    ELSE stopParsing(s, token)

whitespaceCharacterInBody(s, token) ==
    _insertCharacters(_reconstructActiveFormattingElements(s), token)

characterInBody(s, token) ==
    SetFramesetNotOk(_insertCharacters(_reconstructActiveFormattingElements(s), token))

modeInBody(s, token) ==
    CASE token.type = "CHARACTER" -> Dispatch("characterInBody", s, token)
      [] token.type = "WHITESPACE_CHARACTER" -> Dispatch("whitespaceCharacterInBody", s, token)
      [] token.type = "COMMENT" -> appendComment(s, token)
      [] token.type = "START_TAG" -> Dispatch("startTagInBody", s, token)
      [] token.type = "END_TAG" -> Dispatch("endTagInBody", s, token)
      [] token.type = "EOF" -> Dispatch("eofInBody", s, token)
      [] OTHER -> s

\* The "text" insertion mode
endTagInText(s, token) ==
    LET s1 == IF token.tagID = "script" THEN [s EXCEPT !.pendingScript = current(s)] ELSE s
    IN  SetMode(pop(s1), s1.originalInsertionMode)

eofInText(s, token) ==
    LET s1 == pop(_err(s, token, "eofInElementThatCanContainOnlyText"))
    IN  Dispatch("_processToken", SetMode(s1, s1.originalInsertionMode), token)

modeText(s, token) ==
    CASE isCharacterToken(token) -> _insertCharacters(s, token)
      [] token.type = "END_TAG" -> Dispatch("endTagInText", s, token)
      [] token.type = "EOF" -> Dispatch("eofInText", s, token)
      [] OTHER -> s


\* The "in table" insertion mode

\* A tokenInTable that leaves foster parenting enabled.
tokenInTableLeavingEnabled(s, token) ==
    Dispatch("modeInBody", [s EXCEPT !.fosterParentingEnabled = TRUE], token)

tokenInTable(s, token) ==
    LET savedFosterParentingState == s.fosterParentingEnabled
        s1 == Dispatch("modeInBody", [s EXCEPT !.fosterParentingEnabled = TRUE], token)
    IN  [s1 EXCEPT !.fosterParentingEnabled = savedFosterParentingState]

characterInTable(s, token) ==
    IF currentTagId(s) \in TABLE_STRUCTURE_TAGS
    THEN Dispatch("modeInTableText", [s EXCEPT !.pendingCharacterTokens = <<>>,
                                   !.hasNonWhitespacePendingCharacterToken = FALSE,
                                   !.originalInsertionMode = s.insertionMode,
                                   !.insertionMode = "IN_TABLE_TEXT"], token)
    ELSE Dispatch("tokenInTable", s, token)

captionStartTagInTable(s, token) ==
    SetMode(_insertElement(insertMarker(clearBackToTableContext(s)), token, HTML),
            "IN_CAPTION")

colgroupStartTagInTable(s, token) ==
    SetMode(_insertElement(clearBackToTableContext(s), token, HTML), "IN_COLUMN_GROUP")

colStartTagInTable(s, token) ==
    Dispatch("modeInColumnGroup", 
        SetMode(_insertFakeElement(clearBackToTableContext(s), "colgroup", "colgroup"),
                "IN_COLUMN_GROUP"), token)

tbodyStartTagInTable(s, token) ==
    SetMode(_insertElement(clearBackToTableContext(s), token, HTML), "IN_TABLE_BODY")

tdStartTagInTable(s, token) ==
    Dispatch("modeInTableBody", 
        SetMode(_insertFakeElement(clearBackToTableContext(s), "tbody", "tbody"),
                "IN_TABLE_BODY"), token)

tableStartTagInTable(s, token) ==
    IF hasInTableScope(s, "table")
    THEN Dispatch("_processToken", _resetInsertionMode(popUntilTagNamePopped(s, "table")), token)
    ELSE s

inputStartTagInTable(s, token) ==
    Ack(IF isHiddenInput(token) THEN _appendElement(s, token, HTML)
        ELSE Dispatch("tokenInTable", s, token))

formStartTagInTable(s, token) ==
    IF s.formElement = 0 /\ s.openElements.tmplCount = 0
    THEN LET s1 == _insertElement(s, token, HTML)
         IN  IF s1.crashed THEN s1
             ELSE pop([s1 EXCEPT !.formElement = current(s1)])
    ELSE s

startTagInTable(s, token) ==
    LET id == token.tagID
    IN  CASE id \in {"td", "th", "tr"} -> Dispatch("tdStartTagInTable", s, token)
          [] id \in {"style", "script", "template"} -> Dispatch("startTagInHead", s, token)
          [] id = "col" -> Dispatch("colStartTagInTable", s, token)
          [] id = "form" -> Dispatch("formStartTagInTable", s, token)
          [] id = "table" -> Dispatch("tableStartTagInTable", s, token)
          [] id \in {"tbody", "tfoot", "thead"} -> Dispatch("tbodyStartTagInTable", s, token)
          [] id = "input" -> Dispatch("inputStartTagInTable", s, token)
          [] id = "caption" -> Dispatch("captionStartTagInTable", s, token)
          [] id = "colgroup" -> Dispatch("colgroupStartTagInTable", s, token)
          [] OTHER -> Dispatch("tokenInTable", s, token)

endTagInTable(s, token) ==
    LET id == token.tagID
    IN  CASE id = "table" ->
                 IF hasInTableScope(s, "table")
                 THEN _resetInsertionMode(popUntilTagNamePopped(s, "table")) ELSE s
          [] id = "template" -> Dispatch("endTagInHead", s, token)
          [] id \in {"body", "caption", "col", "colgroup", "html", "tbody", "td",
                     "tfoot", "th", "thead", "tr"} -> s
          [] OTHER -> Dispatch("tokenInTable", s, token)

modeInTable(s, token) ==
    CASE isCharacterToken(token) -> Dispatch("characterInTable", s, token)
      [] token.type = "COMMENT" -> appendComment(s, token)
      [] token.type = "START_TAG" -> Dispatch("startTagInTable", s, token)
      [] token.type = "END_TAG" -> Dispatch("endTagInTable", s, token)
      [] token.type = "EOF" -> Dispatch("eofInBody", s, token)
      [] OTHER -> s

\* The "in table text" insertion mode
RECURSIVE ReplayPending(_, _)
ReplayPending(s, i) ==
    IF s.crashed \/ i > Len(s.pendingCharacterTokens) THEN s
    ELSE ReplayPending(
             IF s.hasNonWhitespacePendingCharacterToken
             THEN Dispatch("tokenInTable", s, s.pendingCharacterTokens[i])
             ELSE _insertCharacters(s, s.pendingCharacterTokens[i]), i + 1)

\* A flush that drops the buffered character tokens.
tokenInTableTextDroppingPending(s, token) ==
    Dispatch("_processToken", SetMode(s, s.originalInsertionMode), token)

tokenInTableText(s, token) ==
    LET s1 == ReplayPending(s, 1)
    IN  Dispatch("_processToken", SetMode(s1, s1.originalInsertionMode), token)

modeInTableText(s, token) ==
    CASE token.type = "CHARACTER" ->
             [s EXCEPT !.pendingCharacterTokens = Append(@, token),
                       !.hasNonWhitespacePendingCharacterToken = TRUE]
      [] token.type = "WHITESPACE_CHARACTER" ->
             [s EXCEPT !.pendingCharacterTokens = Append(@, token)]
      [] token.type = "NULL_CHARACTER" -> s
      [] OTHER -> Dispatch("tokenInTableText", s, token)


\* The "in caption" insertion mode
TABLE_VOID_ELEMENTS ==
    {"caption", "col", "colgroup", "tbody", "td", "tfoot", "th", "thead", "tr"}

CloseCaption(s) ==
    SetMode(clearToLastMarker(popUntilTagNamePopped(generateImpliedEndTags(s), "caption")),
            "IN_TABLE")

startTagInCaption(s, token) ==
    IF token.tagID \in TABLE_VOID_ELEMENTS
    THEN IF hasInTableScope(s, "caption") THEN Dispatch("modeInTable", CloseCaption(s), token) ELSE s
    ELSE Dispatch("startTagInBody", s, token)

endTagInCaption(s, token) ==
    LET tn == token.tagID
    IN  CASE tn \in {"caption", "table"} ->
                 IF hasInTableScope(s, "caption")
                 THEN IF tn = "table" THEN Dispatch("modeInTable", CloseCaption(s), token)
                      ELSE CloseCaption(s)
                 ELSE s
          [] tn \in {"body", "col", "colgroup", "html", "tbody", "td", "tfoot", "th",
                     "thead", "tr"} -> s
          [] OTHER -> Dispatch("endTagInBody", s, token)

modeInCaption(s, token) ==
    CASE token.type = "CHARACTER" -> Dispatch("characterInBody", s, token)
      [] token.type = "WHITESPACE_CHARACTER" -> Dispatch("whitespaceCharacterInBody", s, token)
      [] token.type = "COMMENT" -> appendComment(s, token)
      [] token.type = "START_TAG" -> Dispatch("startTagInCaption", s, token)
      [] token.type = "END_TAG" -> Dispatch("endTagInCaption", s, token)
      [] token.type = "EOF" -> Dispatch("eofInBody", s, token)
      [] OTHER -> s

\* The "in column group" insertion mode
tokenInColumnGroup(s, token) ==
    IF currentTagId(s) = "colgroup"
    THEN Dispatch("modeInTable", SetMode(pop(s), "IN_TABLE"), token)
    ELSE s

startTagInColumnGroup(s, token) ==
    CASE token.tagID = "html" -> Dispatch("startTagInBody", s, token)
      [] token.tagID = "col" -> Ack(_appendElement(s, token, HTML))
      [] token.tagID = "template" -> Dispatch("startTagInHead", s, token)
      [] OTHER -> Dispatch("tokenInColumnGroup", s, token)

endTagInColumnGroup(s, token) ==
    CASE token.tagID = "colgroup" ->
             IF currentTagId(s) = "colgroup" THEN SetMode(pop(s), "IN_TABLE") ELSE s
      [] token.tagID = "template" -> Dispatch("endTagInHead", s, token)
      [] token.tagID = "col" -> s
      [] OTHER -> Dispatch("tokenInColumnGroup", s, token)

modeInColumnGroup(s, token) ==
    CASE token.type \in {"CHARACTER", "NULL_CHARACTER"} -> Dispatch("tokenInColumnGroup", s, token)
      [] token.type = "WHITESPACE_CHARACTER" -> _insertCharacters(s, token)
      [] token.type = "COMMENT" -> appendComment(s, token)
      [] token.type = "START_TAG" -> Dispatch("startTagInColumnGroup", s, token)
      [] token.type = "END_TAG" -> Dispatch("endTagInColumnGroup", s, token)
      [] token.type = "EOF" -> Dispatch("eofInBody", s, token)
      [] OTHER -> s

\* The "in table body" insertion mode
CloseTableBody(s) == SetMode(pop(clearBackToTableBodyContext(s)), "IN_TABLE")

startTagInTableBody(s, token) ==
    LET id == token.tagID
    IN  CASE id = "tr" ->
                 SetMode(_insertElement(clearBackToTableBodyContext(s), token, HTML),
                         "IN_ROW")
          [] id \in {"th", "td"} ->
                 Dispatch("modeInRow", SetMode(_insertFakeElement(clearBackToTableBodyContext(s),
                                                      "tr", "tr"), "IN_ROW"), token)
          [] id \in {"caption", "col", "colgroup", "tbody", "tfoot", "thead"} ->
                 IF hasTableBodyContextInTableScope(s)
                 THEN Dispatch("modeInTable", CloseTableBody(s), token) ELSE s
          [] OTHER -> Dispatch("startTagInTable", s, token)

endTagInTableBody(s, token) ==
    LET tn == token.tagID
    IN  CASE tn \in {"tbody", "tfoot", "thead"} ->
                 IF hasInTableScope(s, tn) THEN CloseTableBody(s) ELSE s
          [] tn = "table" ->
                 IF hasTableBodyContextInTableScope(s)
                 THEN Dispatch("modeInTable", CloseTableBody(s), token) ELSE s
          [] tn \in {"body", "caption", "col", "colgroup", "html", "td", "th", "tr"} -> s
          [] OTHER -> Dispatch("endTagInTable", s, token)

modeInTableBody(s, token) ==
    CASE isCharacterToken(token) -> Dispatch("characterInTable", s, token)
      [] token.type = "COMMENT" -> appendComment(s, token)
      [] token.type = "START_TAG" -> Dispatch("startTagInTableBody", s, token)
      [] token.type = "END_TAG" -> Dispatch("endTagInTableBody", s, token)
      [] token.type = "EOF" -> Dispatch("eofInBody", s, token)
      [] OTHER -> s

\* The "in row" insertion mode
CloseRow(s) == SetMode(pop(clearBackToTableRowContext(s)), "IN_TABLE_BODY")

startTagInRow(s, token) ==
    LET id == token.tagID
    IN  CASE id \in {"th", "td"} ->
                 insertMarker(SetMode(_insertElement(clearBackToTableRowContext(s),
                                                     token, HTML), "IN_CELL"))
          [] id \in {"caption", "col", "colgroup", "tbody", "tfoot", "thead", "tr"} ->
                 IF hasInTableScope(s, "tr")
                 THEN Dispatch("modeInTableBody", CloseRow(s), token) ELSE s
          [] OTHER -> Dispatch("startTagInTable", s, token)

endTagInRow(s, token) ==
    LET id == token.tagID
    IN  CASE id = "tr" -> IF hasInTableScope(s, "tr") THEN CloseRow(s) ELSE s
          [] id = "table" ->
                 IF hasInTableScope(s, "tr")
                 THEN Dispatch("modeInTableBody", CloseRow(s), token) ELSE s
          [] id \in {"tbody", "tfoot", "thead"} ->
                 IF hasInTableScope(s, id) \/ hasInTableScope(s, "tr")
                 THEN Dispatch("modeInTableBody", CloseRow(s), token) ELSE s
          [] id \in {"body", "caption", "col", "colgroup", "html", "td", "th"} -> s
          [] OTHER -> Dispatch("endTagInTable", s, token)

modeInRow(s, token) ==
    CASE isCharacterToken(token) -> Dispatch("characterInTable", s, token)
      [] token.type = "COMMENT" -> appendComment(s, token)
      [] token.type = "START_TAG" -> Dispatch("startTagInRow", s, token)
      [] token.type = "END_TAG" -> Dispatch("endTagInRow", s, token)
      [] token.type = "EOF" -> Dispatch("eofInBody", s, token)
      [] OTHER -> s


\* The "in cell" insertion mode
startTagInCell(s, token) ==
    IF token.tagID \in TABLE_VOID_ELEMENTS
    THEN IF hasInTableScope(s, "td") \/ hasInTableScope(s, "th")
         THEN Dispatch("_processToken", _closeTableCell(s), token) ELSE s
    ELSE Dispatch("startTagInBody", s, token)

endTagInCell(s, token) ==
    LET tn == token.tagID
    IN  CASE tn \in {"td", "th"} ->
                 IF hasInTableScope(s, tn)
                 THEN SetMode(clearToLastMarker(popUntilTagNamePopped(
                                  generateImpliedEndTags(s), tn)), "IN_ROW")
                 ELSE s
          [] tn \in {"table", "tbody", "tfoot", "thead", "tr"} ->
                 IF hasInTableScope(s, tn)
                 THEN Dispatch("_processToken", _closeTableCell(s), token) ELSE s
          [] tn \in {"body", "caption", "col", "colgroup", "html"} -> s
          [] OTHER -> Dispatch("endTagInBody", s, token)

modeInCell(s, token) ==
    CASE token.type = "CHARACTER" -> Dispatch("characterInBody", s, token)
      [] token.type = "WHITESPACE_CHARACTER" -> Dispatch("whitespaceCharacterInBody", s, token)
      [] token.type = "COMMENT" -> appendComment(s, token)
      [] token.type = "START_TAG" -> Dispatch("startTagInCell", s, token)
      [] token.type = "END_TAG" -> Dispatch("endTagInCell", s, token)
      [] token.type = "EOF" -> Dispatch("eofInBody", s, token)
      [] OTHER -> s

\* The "in select" insertion mode
PopIfCurrent(s, tagID) == IF currentTagId(s) = tagID THEN pop(s) ELSE s

startTagInSelect(s, token) ==
    LET id == token.tagID
    IN  CASE id = "html" -> Dispatch("startTagInBody", s, token)
          [] id = "option" -> _insertElement(PopIfCurrent(s, "option"), token, HTML)
          [] id = "optgroup" ->
                 _insertElement(PopIfCurrent(PopIfCurrent(s, "option"), "optgroup"),
                                token, HTML)
          [] id \in {"input", "keygen", "textarea", "select"} ->
                 IF hasInSelectScope(s, "select")
                 THEN LET s1 == _resetInsertionMode(popUntilTagNamePopped(s, "select"))
                      IN  IF id # "select" THEN Dispatch("_processToken", s1, token) ELSE s1
                 ELSE s
          [] id \in {"script", "template"} -> Dispatch("startTagInHead", s, token)
          [] OTHER -> s

endTagInSelect(s, token) ==
    LET id == token.tagID
        tagIDs == s.openElements.tagIDs
    IN  CASE id = "optgroup" ->
                 PopIfCurrent(
                     IF /\ stackTop(s) > 0
                        /\ currentTagId(s) = "option"
                        /\ tagIDs[Len(tagIDs) - 1] = "optgroup"
                     THEN pop(s) ELSE s, "optgroup")
          [] id = "option" -> PopIfCurrent(s, "option")
          [] id = "select" ->
                 IF hasInSelectScope(s, "select")
                 THEN _resetInsertionMode(popUntilTagNamePopped(s, "select")) ELSE s
          [] id = "template" -> Dispatch("endTagInHead", s, token)
          [] OTHER -> s

modeInSelect(s, token) ==
    CASE token.type \in {"CHARACTER", "WHITESPACE_CHARACTER"} -> _insertCharacters(s, token)
      [] token.type = "COMMENT" -> appendComment(s, token)
      [] token.type = "START_TAG" -> Dispatch("startTagInSelect", s, token)
      [] token.type = "END_TAG" -> Dispatch("endTagInSelect", s, token)
      [] token.type = "EOF" -> Dispatch("eofInBody", s, token)
      [] OTHER -> s

\* The "in select in table" insertion mode
SelectInTableTags == {"caption", "table", "tbody", "tfoot", "thead", "tr", "td", "th"}

\* A closure of the select that drops the table-structure start tag.
startTagInSelectInTableDroppingToken(s, token) ==
    IF token.tagID \in SelectInTableTags
    THEN _resetInsertionMode(popUntilTagNamePopped(s, "select"))
    ELSE Dispatch("startTagInSelect", s, token)

startTagInSelectInTable(s, token) ==
    IF token.tagID \in SelectInTableTags
    THEN Dispatch("_processToken", _resetInsertionMode(popUntilTagNamePopped(s, "select")), token)
    ELSE Dispatch("startTagInSelect", s, token)

endTagInSelectInTable(s, token) ==
    IF token.tagID \in SelectInTableTags
    THEN IF hasInTableScope(s, token.tagID)
         THEN Dispatch("_processToken", _resetInsertionMode(popUntilTagNamePopped(s, "select")), token)
         ELSE s
    ELSE Dispatch("endTagInSelect", s, token)

modeInSelectInTable(s, token) ==
    CASE token.type \in {"CHARACTER", "WHITESPACE_CHARACTER"} -> _insertCharacters(s, token)
      [] token.type = "COMMENT" -> appendComment(s, token)
      [] token.type = "START_TAG" -> Dispatch("startTagInSelectInTable", s, token)
      [] token.type = "END_TAG" -> Dispatch("endTagInSelectInTable", s, token)
      [] token.type = "EOF" -> Dispatch("eofInBody", s, token)
      [] OTHER -> s

\* The "in template" insertion mode
\* A rewrite of insertionMode alone.
SetInsertionModeOnly(s, mode) ==
    IF s.crashed THEN s ELSE [s EXCEPT !.insertionMode = mode]

SetTmplMode(s, mode) ==
    IF s.crashed THEN s
    ELSE [s EXCEPT !.tmplInsertionModeStack =
                       IF Len(@) = 0 THEN <<mode>> ELSE [@ EXCEPT ![1] = mode],
                   !.insertionMode = mode]

startTagInTemplate(s, token) ==
    LET id == token.tagID
    IN  CASE id \in {"base", "basefont", "bgsound", "link", "meta", "noframes", "script",
                     "style", "template", "title"} -> Dispatch("startTagInHead", s, token)
          [] id \in {"caption", "colgroup", "tbody", "tfoot", "thead"} ->
                 Dispatch("modeInTable", SetTmplMode(s, "IN_TABLE"), token)
          [] id = "col" -> Dispatch("modeInColumnGroup", SetTmplMode(s, "IN_COLUMN_GROUP"), token)
          [] id = "tr" -> Dispatch("modeInTableBody", SetTmplMode(s, "IN_TABLE_BODY"), token)
          [] id \in {"td", "th"} -> Dispatch("modeInRow", SetTmplMode(s, "IN_ROW"), token)
          [] OTHER -> Dispatch("modeInBody", SetTmplMode(s, "IN_BODY"), token)

endTagInTemplate(s, token) ==
    IF token.tagID = "template" THEN Dispatch("endTagInHead", s, token) ELSE s

eofInTemplate(s, token) ==
    IF s.openElements.tmplCount > 0
    THEN LET s1 == clearToLastMarker(popUntilTagNamePopped(s, "template"))
             s2 == IF s1.crashed \/ Len(s1.tmplInsertionModeStack) = 0 THEN s1
                   ELSE [s1 EXCEPT !.tmplInsertionModeStack = Tail(@)]
         IN  Dispatch("_processToken", _resetInsertionMode(s2), token)
    ELSE stopParsing(s, token)

modeInTemplate(s, token) ==
    CASE token.type = "CHARACTER" -> Dispatch("characterInBody", s, token)
      [] token.type = "WHITESPACE_CHARACTER" -> Dispatch("whitespaceCharacterInBody", s, token)
      [] token.type = "COMMENT" -> appendComment(s, token)
      [] token.type = "START_TAG" -> Dispatch("startTagInTemplate", s, token)
      [] token.type = "END_TAG" -> Dispatch("endTagInTemplate", s, token)
      [] token.type = "EOF" -> Dispatch("eofInTemplate", s, token)
      [] OTHER -> s


\* The "after body" insertion mode
tokenAfterBody(s, token) == Dispatch("modeInBody", SetMode(s, "IN_BODY"), token)

startTagAfterBody(s, token) ==
    IF token.tagID = "html" THEN Dispatch("startTagInBody", s, token) ELSE Dispatch("tokenAfterBody", s, token)

endTagAfterBody(s, token) ==
    IF token.tagID = "html"
    THEN LET s1 == IF s.fragmentContext = 0 THEN SetMode(s, "AFTER_AFTER_BODY") ELSE s
         IN  IF /\ s1.options.sourceCodeLocationInfo
                /\ Len(s1.openElements.tagIDs) > 0
                /\ s1.openElements.tagIDs[1] = "html"
             THEN _setEndLocation(s1, s1.openElements.items[1], token)
             ELSE s1
    ELSE Dispatch("tokenAfterBody", s, token)

modeAfterBody(s, token) ==
    CASE token.type \in {"CHARACTER", "NULL_CHARACTER"} -> Dispatch("tokenAfterBody", s, token)
      [] token.type = "WHITESPACE_CHARACTER" -> Dispatch("whitespaceCharacterInBody", s, token)
      [] token.type = "COMMENT" -> appendCommentToRootHtmlElement(s, token)
      [] token.type = "START_TAG" -> Dispatch("startTagAfterBody", s, token)
      [] token.type = "END_TAG" -> Dispatch("endTagAfterBody", s, token)
      [] token.type = "EOF" -> stopParsing(s, token)
      [] OTHER -> s

\* The "in frameset" insertion mode
startTagInFrameset(s, token) ==
    CASE token.tagID = "html" -> Dispatch("startTagInBody", s, token)
      [] token.tagID = "frameset" -> _insertElement(s, token, HTML)
      [] token.tagID = "frame" -> Ack(_appendElement(s, token, HTML))
      [] token.tagID = "noframes" -> Dispatch("startTagInHead", s, token)
      [] OTHER -> s

endTagInFrameset(s, token) ==
    IF token.tagID = "frameset" /\ ~isRootHtmlElementCurrent(s)
    THEN LET s1 == pop(s)
         IN  IF s1.fragmentContext = 0 /\ currentTagId(s1) # "frameset"
             THEN SetMode(s1, "AFTER_FRAMESET") ELSE s1
    ELSE s

modeInFrameset(s, token) ==
    CASE token.type = "WHITESPACE_CHARACTER" -> _insertCharacters(s, token)
      [] token.type = "COMMENT" -> appendComment(s, token)
      [] token.type = "START_TAG" -> Dispatch("startTagInFrameset", s, token)
      [] token.type = "END_TAG" -> Dispatch("endTagInFrameset", s, token)
      [] token.type = "EOF" -> stopParsing(s, token)
      [] OTHER -> s

\* The "after frameset" insertion mode
startTagAfterFrameset(s, token) ==
    CASE token.tagID = "html" -> Dispatch("startTagInBody", s, token)
      [] token.tagID = "noframes" -> Dispatch("startTagInHead", s, token)
      [] OTHER -> s

endTagAfterFrameset(s, token) ==
    IF token.tagID = "html" THEN SetMode(s, "AFTER_AFTER_FRAMESET") ELSE s

modeAfterFrameset(s, token) ==
    CASE token.type = "WHITESPACE_CHARACTER" -> _insertCharacters(s, token)
      [] token.type = "COMMENT" -> appendComment(s, token)
      [] token.type = "START_TAG" -> Dispatch("startTagAfterFrameset", s, token)
      [] token.type = "END_TAG" -> Dispatch("endTagAfterFrameset", s, token)
      [] token.type = "EOF" -> stopParsing(s, token)
      [] OTHER -> s

\* The "after after body" insertion mode
tokenAfterAfterBody(s, token) == Dispatch("modeInBody", SetMode(s, "IN_BODY"), token)

startTagAfterAfterBody(s, token) ==
    IF token.tagID = "html" THEN Dispatch("startTagInBody", s, token)
    ELSE Dispatch("tokenAfterAfterBody", s, token)

modeAfterAfterBody(s, token) ==
    CASE token.type \in {"CHARACTER", "NULL_CHARACTER", "END_TAG"} ->
             Dispatch("tokenAfterAfterBody", s, token)
      [] token.type = "WHITESPACE_CHARACTER" -> Dispatch("whitespaceCharacterInBody", s, token)
      [] token.type = "COMMENT" -> appendCommentToDocument(s, token)
      [] token.type = "START_TAG" -> Dispatch("startTagAfterAfterBody", s, token)
      [] token.type = "EOF" -> stopParsing(s, token)
      [] OTHER -> s

\* The "after after frameset" insertion mode
startTagAfterAfterFrameset(s, token) ==
    CASE token.tagID = "html" -> Dispatch("startTagInBody", s, token)
      [] token.tagID = "noframes" -> Dispatch("startTagInHead", s, token)
      [] OTHER -> s

modeAfterAfterFrameset(s, token) ==
    CASE token.type = "WHITESPACE_CHARACTER" -> Dispatch("whitespaceCharacterInBody", s, token)
      [] token.type = "COMMENT" -> appendCommentToDocument(s, token)
      [] token.type = "START_TAG" -> Dispatch("startTagAfterAfterFrameset", s, token)
      [] token.type = "EOF" -> stopParsing(s, token)
      [] OTHER -> s

\* The rules for parsing tokens in foreign content
RenameAttrs(token, Adjusted(_)) ==
    [token EXCEPT !.attrs = [i \in 1..Len(@) |-> [@[i] EXCEPT !.name = Adjusted(@)]]]

adjustTokenMathMLAttrs(token) ==
    LET hits == {i \in 1..Len(token.attrs) : token.attrs[i].name = "definitionurl"}
        first == CHOOSE i \in hits : \A j \in hits : i <= j
    IN  IF hits = {} THEN token
        ELSE [token EXCEPT !.attrs[first].name = "definitionURL"]

adjustTokenSVGAttrs(token) ==
    RenameAttrs(token, LAMBDA n : CASE n = "viewbox" -> "viewBox"
                                    [] n = "attributename" -> "attributeName"
                                    [] OTHER -> n)

adjustTokenXMLAttrs(token) ==
    RenameAttrs(token, LAMBDA n : CASE n = "xlink:href" -> "href"
                                    [] n = "xml:lang" -> "lang"
                                    [] OTHER -> n)

nullCharacterInForeignContent(s, token) ==
    _insertCharacters(s, [token EXCEPT !.chars = <<REPLACEMENT_CHARACTER>>])

characterInForeignContent(s, token) ==
    SetFramesetNotOk(_insertCharacters(s, token))

RECURSIVE PopForeign(_)
PopForeign(s) ==
    IF s.crashed THEN s
    ELSE IF /\ getNamespaceURI(s, current(s)) # HTML
            /\ ~_isIntegrationPoint(s, currentTagId(s), current(s), "")
         THEN PopForeign(pop(s))
         ELSE s

\* A start tag that leaves foreign content in a fragment parser too.
startTagInForeignContentAlwaysExiting(s, token) ==
    IF causesExit(token)
    THEN Dispatch("_processToken", PopForeign(s), token)
    ELSE LET cur == _getAdjustedCurrentElement(s)
             currentNs == getNamespaceURI(s, cur)
             adjusted == adjustTokenXMLAttrs(
                             CASE currentNs = MATHML -> adjustTokenMathMLAttrs(token)
                               [] currentNs = SVG ->
                                      adjustTokenSVGAttrs(adjustTokenSVGTagName(token))
                               [] OTHER -> token)
         IN  Ack(IF adjusted.selfClosing THEN _appendElement(s, adjusted, currentNs)
                 ELSE _insertElement(s, adjusted, currentNs))

startTagInForeignContent(s, token) ==
    IF causesExit(token) /\ s.fragmentContext = 0
    THEN Dispatch("_processToken", PopForeign(s), token)
    ELSE LET cur == _getAdjustedCurrentElement(s)
             currentNs == getNamespaceURI(s, cur)
             adjusted == adjustTokenXMLAttrs(
                             CASE currentNs = MATHML -> adjustTokenMathMLAttrs(token)
                               [] currentNs = SVG ->
                                      adjustTokenSVGAttrs(adjustTokenSVGTagName(token))
                               [] OTHER -> token)
         IN  Ack(IF adjusted.selfClosing THEN _appendElement(s, adjusted, currentNs)
                 ELSE _insertElement(s, adjusted, currentNs))

\* String.prototype.toLowerCase on the tag names of the model: the SVG
\* name the parser adjusts is the only one with an upper-case letter.
toLowerCase(tagName) ==
    IF tagName = "foreignObject" THEN "foreignobject" ELSE tagName

\* An end tag walk that compares the tag names as they are stored.
RECURSIVE EndTagForeignWalkCaseSensitive(_, _, _)
EndTagForeignWalkCaseSensitive(s, token, i) ==
    IF i <= 0 THEN s
    ELSE LET element == s.openElements.items[i + 1]
         IN  IF getNamespaceURI(s, element) = HTML THEN Dispatch("_processToken", s, token)
             ELSE IF getTagName(s, element) = token.tagName
                  THEN shortenToLength(s, i)
                  ELSE EndTagForeignWalkCaseSensitive(s, token, i - 1)

endTagInForeignContentCaseSensitive(s, token) ==
    EndTagForeignWalkCaseSensitive(s, token, stackTop(s))

RECURSIVE EndTagForeignWalk(_, _, _)
EndTagForeignWalk(s, token, i) ==
    IF i <= 0 THEN s
    ELSE LET element == s.openElements.items[i + 1]
         IN  IF getNamespaceURI(s, element) = HTML THEN Dispatch("_processToken", s, token)
             ELSE IF toLowerCase(getTagName(s, element)) = token.tagName
                  THEN shortenToLength(s, i)
                  ELSE EndTagForeignWalk(s, token, i - 1)

endTagInForeignContent(s, token) == EndTagForeignWalk(s, token, stackTop(s))


\* ------------------------------------------------------- token dispatch
\* Parser._processToken: the switch over the insertion mode.  A mode value
\* outside the enumeration reaches `default: // Do nothing`; the model
\* counts those tokens in `dropped`.
_processToken(s, token) ==
    IF s.crashed THEN s
    ELSE CASE s.insertionMode = "INITIAL" -> Dispatch("modeInitial", s, token)
           [] s.insertionMode = "BEFORE_HTML" -> Dispatch("modeBeforeHtml", s, token)
           [] s.insertionMode = "BEFORE_HEAD" -> Dispatch("modeBeforeHead", s, token)
           [] s.insertionMode = "IN_HEAD" -> Dispatch("modeInHead", s, token)
           [] s.insertionMode = "IN_HEAD_NO_SCRIPT" -> Dispatch("modeInHeadNoScript", s, token)
           [] s.insertionMode = "AFTER_HEAD" -> Dispatch("modeAfterHead", s, token)
           [] s.insertionMode = "IN_BODY" -> Dispatch("modeInBody", s, token)
           [] s.insertionMode = "TEXT" -> Dispatch("modeText", s, token)
           [] s.insertionMode = "IN_TABLE" -> Dispatch("modeInTable", s, token)
           [] s.insertionMode = "IN_TABLE_TEXT" -> Dispatch("modeInTableText", s, token)
           [] s.insertionMode = "IN_CAPTION" -> Dispatch("modeInCaption", s, token)
           [] s.insertionMode = "IN_COLUMN_GROUP" -> Dispatch("modeInColumnGroup", s, token)
           [] s.insertionMode = "IN_TABLE_BODY" -> Dispatch("modeInTableBody", s, token)
           [] s.insertionMode = "IN_ROW" -> Dispatch("modeInRow", s, token)
           [] s.insertionMode = "IN_CELL" -> Dispatch("modeInCell", s, token)
           [] s.insertionMode = "IN_SELECT" -> Dispatch("modeInSelect", s, token)
           [] s.insertionMode = "IN_SELECT_IN_TABLE" -> Dispatch("modeInSelectInTable", s, token)
           [] s.insertionMode = "IN_TEMPLATE" -> Dispatch("modeInTemplate", s, token)
           [] s.insertionMode = "AFTER_BODY" -> Dispatch("modeAfterBody", s, token)
           [] s.insertionMode = "IN_FRAMESET" -> Dispatch("modeInFrameset", s, token)
           [] s.insertionMode = "AFTER_FRAMESET" -> Dispatch("modeAfterFrameset", s, token)
           [] s.insertionMode = "AFTER_AFTER_BODY" -> Dispatch("modeAfterAfterBody", s, token)
           [] s.insertionMode = "AFTER_AFTER_FRAMESET" -> Dispatch("modeAfterAfterFrameset", s, token)
           [] OTHER -> [s EXCEPT !.dropped = @ + 1]

_processTokenInForeignContent(s, token) ==
    CASE token.type = "CHARACTER" -> Dispatch("characterInForeignContent", s, token)
      [] token.type = "NULL_CHARACTER" -> Dispatch("nullCharacterInForeignContent", s, token)
      [] token.type = "WHITESPACE_CHARACTER" -> _insertCharacters(s, token)
      [] token.type = "COMMENT" -> appendComment(s, token)
      [] token.type = "START_TAG" -> Dispatch("startTagInForeignContent", s, token)
      [] token.type = "END_TAG" -> Dispatch("endTagInForeignContent", s, token)
      [] OTHER -> s

\* A _processInputToken that does not look at ackSelfClosing.
_processInputTokenAnySolidus(s, token) ==
    LET s0 == [s EXCEPT !.ackSelfClosing = FALSE]
        s1 == IF s0.considerForeignContent /\ _shouldProcessTokenInForeignContent(s0, token)
              THEN Dispatch("_processTokenInForeignContent", s0, token)
              ELSE Dispatch("_processToken", s0, token)
    IN  IF token.type = "START_TAG" /\ token.selfClosing
        THEN _err(s1, token, "nonVoidHtmlElementStartTagWithTrailingSolidus")
        ELSE s1

\* Parser._processInputToken.  The token comes from the tokenizer with
\* ackSelfClosing unset.
_processInputToken(s, token) ==
    LET s0 == [s EXCEPT !.ackSelfClosing = FALSE]
        s1 == IF s0.considerForeignContent /\ _shouldProcessTokenInForeignContent(s0, token)
              THEN Dispatch("_processTokenInForeignContent", s0, token)
              ELSE Dispatch("_processToken", s0, token)
    IN  IF token.type = "START_TAG" /\ token.selfClosing /\ ~s1.ackSelfClosing
        THEN _err(s1, token, "nonVoidHtmlElementStartTagWithTrailingSolidus")
        ELSE s1


\* ---------------------------------------------------------- handler calls
\* The call of the handler named `handler`.
Dispatch(handler, s, token) ==
    IF s.crashed THEN s
    ELSE
    CASE handler = "callAdoptionAgency" -> callAdoptionAgency(s, token)
      [] handler = "doctypeInInitialMode" -> doctypeInInitialMode(s, token)
      [] handler = "tokenInInitialMode" -> tokenInInitialMode(s, token)
      [] handler = "modeInitial" -> modeInitial(s, token)
      [] handler = "tokenBeforeHtml" -> tokenBeforeHtml(s, token)
      [] handler = "modeBeforeHtml" -> modeBeforeHtml(s, token)
      [] handler = "tokenBeforeHead" -> tokenBeforeHead(s, token)
      [] handler = "startTagBeforeHead" -> startTagBeforeHead(s, token)
      [] handler = "modeBeforeHead" -> modeBeforeHead(s, token)
      [] handler = "tokenInHead" -> tokenInHead(s, token)
      [] handler = "startTagInHead" -> startTagInHead(s, token)
      [] handler = "templateEndTagInHead" -> templateEndTagInHead(s, token)
      [] handler = "endTagInHead" -> endTagInHead(s, token)
      [] handler = "modeInHead" -> modeInHead(s, token)
      [] handler = "tokenInHeadNoScript" -> tokenInHeadNoScript(s, token)
      [] handler = "startTagInHeadNoScript" -> startTagInHeadNoScript(s, token)
      [] handler = "endTagInHeadNoScript" -> endTagInHeadNoScript(s, token)
      [] handler = "modeInHeadNoScript" -> modeInHeadNoScript(s, token)
      [] handler = "tokenAfterHead" -> tokenAfterHead(s, token)
      [] handler = "startTagAfterHead" -> startTagAfterHead(s, token)
      [] handler = "endTagAfterHead" -> endTagAfterHead(s, token)
      [] handler = "modeAfterHead" -> modeAfterHead(s, token)
      [] handler = "htmlStartTagInBody" -> htmlStartTagInBody(s, token)
      [] handler = "bodyStartTagInBody" -> bodyStartTagInBody(s, token)
      [] handler = "framesetStartTagInBody" -> framesetStartTagInBody(s, token)
      [] handler = "addressStartTagInBody" -> addressStartTagInBody(s, token)
      [] handler = "numberedHeaderStartTagInBody" -> numberedHeaderStartTagInBody(s, token)
      [] handler = "preStartTagInBody" -> preStartTagInBody(s, token)
      [] handler = "formStartTagInBody" -> formStartTagInBody(s, token)
      [] handler = "listItemStartTagInBody" -> listItemStartTagInBody(s, token)
      [] handler = "plaintextStartTagInBody" -> plaintextStartTagInBody(s, token)
      [] handler = "buttonStartTagInBody" -> buttonStartTagInBody(s, token)
      [] handler = "bStartTagInBody" -> bStartTagInBody(s, token)
      [] handler = "aStartTagInBody" -> aStartTagInBody(s, token)
      [] handler = "nobrStartTagInBody" -> nobrStartTagInBody(s, token)
      [] handler = "appletStartTagInBody" -> appletStartTagInBody(s, token)
      [] handler = "tableStartTagInBody" -> tableStartTagInBody(s, token)
      [] handler = "areaStartTagInBody" -> areaStartTagInBody(s, token)
      [] handler = "inputStartTagInBody" -> inputStartTagInBody(s, token)
      [] handler = "hrStartTagInBody" -> hrStartTagInBody(s, token)
      [] handler = "imageStartTagInBody" -> imageStartTagInBody(s, token)
      [] handler = "textareaStartTagInBody" -> textareaStartTagInBody(s, token)
      [] handler = "xmpStartTagInBody" -> xmpStartTagInBody(s, token)
      [] handler = "selectStartTagInBody" -> selectStartTagInBody(s, token)
      [] handler = "optgroupStartTagInBody" -> optgroupStartTagInBody(s, token)
      [] handler = "rbStartTagInBody" -> rbStartTagInBody(s, token)
      [] handler = "rtStartTagInBody" -> rtStartTagInBody(s, token)
      [] handler = "genericStartTagInBody" -> genericStartTagInBody(s, token)
      [] handler = "startTagInBody" -> startTagInBody(s, token)
      [] handler = "bodyEndTagInBody" -> bodyEndTagInBody(s, token)
      [] handler = "htmlEndTagInBody" -> htmlEndTagInBody(s, token)
      [] handler = "addressEndTagInBody" -> addressEndTagInBody(s, token)
      [] handler = "ddEndTagInBody" -> ddEndTagInBody(s, token)
      [] handler = "appletEndTagInBody" -> appletEndTagInBody(s, token)
      [] handler = "endTagInBody" -> endTagInBody(s, token)
      [] handler = "eofInBody" -> eofInBody(s, token)
      [] handler = "whitespaceCharacterInBody" -> whitespaceCharacterInBody(s, token)
      [] handler = "characterInBody" -> characterInBody(s, token)
      [] handler = "modeInBody" -> modeInBody(s, token)
      [] handler = "endTagInText" -> endTagInText(s, token)
      [] handler = "eofInText" -> eofInText(s, token)
      [] handler = "modeText" -> modeText(s, token)
      [] handler = "tokenInTable" -> tokenInTable(s, token)
      [] handler = "characterInTable" -> characterInTable(s, token)
      [] handler = "captionStartTagInTable" -> captionStartTagInTable(s, token)
      [] handler = "colgroupStartTagInTable" -> colgroupStartTagInTable(s, token)
      [] handler = "colStartTagInTable" -> colStartTagInTable(s, token)
      [] handler = "tbodyStartTagInTable" -> tbodyStartTagInTable(s, token)
      [] handler = "tdStartTagInTable" -> tdStartTagInTable(s, token)
      [] handler = "tableStartTagInTable" -> tableStartTagInTable(s, token)
      [] handler = "inputStartTagInTable" -> inputStartTagInTable(s, token)
      [] handler = "formStartTagInTable" -> formStartTagInTable(s, token)
      [] handler = "startTagInTable" -> startTagInTable(s, token)
      [] handler = "endTagInTable" -> endTagInTable(s, token)
      [] handler = "modeInTable" -> modeInTable(s, token)
      [] handler = "tokenInTableText" -> tokenInTableText(s, token)
      [] handler = "modeInTableText" -> modeInTableText(s, token)
      [] handler = "startTagInCaption" -> startTagInCaption(s, token)
      [] handler = "endTagInCaption" -> endTagInCaption(s, token)
      [] handler = "modeInCaption" -> modeInCaption(s, token)
      [] handler = "tokenInColumnGroup" -> tokenInColumnGroup(s, token)
      [] handler = "startTagInColumnGroup" -> startTagInColumnGroup(s, token)
      [] handler = "endTagInColumnGroup" -> endTagInColumnGroup(s, token)
      [] handler = "modeInColumnGroup" -> modeInColumnGroup(s, token)
      [] handler = "startTagInTableBody" -> startTagInTableBody(s, token)
      [] handler = "endTagInTableBody" -> endTagInTableBody(s, token)
      [] handler = "modeInTableBody" -> modeInTableBody(s, token)
      [] handler = "startTagInRow" -> startTagInRow(s, token)
      [] handler = "endTagInRow" -> endTagInRow(s, token)
      [] handler = "modeInRow" -> modeInRow(s, token)
      [] handler = "startTagInCell" -> startTagInCell(s, token)
      [] handler = "endTagInCell" -> endTagInCell(s, token)
      [] handler = "modeInCell" -> modeInCell(s, token)
      [] handler = "startTagInSelect" -> startTagInSelect(s, token)
      [] handler = "endTagInSelect" -> endTagInSelect(s, token)
      [] handler = "modeInSelect" -> modeInSelect(s, token)
      [] handler = "startTagInSelectInTable" -> startTagInSelectInTable(s, token)
      [] handler = "endTagInSelectInTable" -> endTagInSelectInTable(s, token)
      [] handler = "modeInSelectInTable" -> modeInSelectInTable(s, token)
      [] handler = "startTagInTemplate" -> startTagInTemplate(s, token)
      [] handler = "endTagInTemplate" -> endTagInTemplate(s, token)
      [] handler = "eofInTemplate" -> eofInTemplate(s, token)
      [] handler = "modeInTemplate" -> modeInTemplate(s, token)
      [] handler = "tokenAfterBody" -> tokenAfterBody(s, token)
      [] handler = "startTagAfterBody" -> startTagAfterBody(s, token)
      [] handler = "endTagAfterBody" -> endTagAfterBody(s, token)
      [] handler = "modeAfterBody" -> modeAfterBody(s, token)
      [] handler = "startTagInFrameset" -> startTagInFrameset(s, token)
      [] handler = "endTagInFrameset" -> endTagInFrameset(s, token)
      [] handler = "modeInFrameset" -> modeInFrameset(s, token)
      [] handler = "startTagAfterFrameset" -> startTagAfterFrameset(s, token)
      [] handler = "endTagAfterFrameset" -> endTagAfterFrameset(s, token)
      [] handler = "modeAfterFrameset" -> modeAfterFrameset(s, token)
      [] handler = "tokenAfterAfterBody" -> tokenAfterAfterBody(s, token)
      [] handler = "startTagAfterAfterBody" -> startTagAfterAfterBody(s, token)
      [] handler = "modeAfterAfterBody" -> modeAfterAfterBody(s, token)
      [] handler = "startTagAfterAfterFrameset" -> startTagAfterAfterFrameset(s, token)
      [] handler = "modeAfterAfterFrameset" -> modeAfterAfterFrameset(s, token)
      [] handler = "nullCharacterInForeignContent" -> nullCharacterInForeignContent(s, token)
      [] handler = "characterInForeignContent" -> characterInForeignContent(s, token)
      [] handler = "startTagInForeignContent" -> startTagInForeignContent(s, token)
      [] handler = "endTagInForeignContent" -> endTagInForeignContent(s, token)
      [] handler = "_processToken" -> _processToken(s, token)
      [] handler = "_processTokenInForeignContent" -> _processTokenInForeignContent(s, token)
      [] handler = "_processInputToken" -> _processInputToken(s, token)

\* ------------------------------------------------------------ tokenizer
\* The tokenizer is an external collaborator: getNextToken hands out the
\* next token of the input.  The input is any sequence over the alphabet
\* of the run's profile, followed by EOF.
X == Chars("CHARACTER", <<"x">>)
Y == Chars("CHARACTER", <<"y">>)

Text(c) == Chars("CHARACTER", <<c>>)

\* The token sequences of literal inputs.
\* <p>1<b>2<i>3</b>4</i>5</p>
MisnestedInput ==
    << StartTag("p"), Text("1"), StartTag("b"), Text("2"), StartTag("i"), Text("3"),
       EndTag("b"), Text("4"), EndTag("i"), Text("5"), EndTag("p") >>

\* <table>a<tr><td>b</td></tr></table>
FosteredInput ==
    << StartTag("table"), Text("a"), StartTag("tr"), StartTag("td"), Text("b"),
       EndTag("td"), EndTag("tr"), EndTag("table") >>

ExampleInput(prof) ==
    CASE prof = "misnested" -> MisnestedInput
      [] prof = "fostered" -> FosteredInput
      [] OTHER -> <<>>

Alphabet(prof, n) ==
    CASE prof \in {"misnested", "fostered"} -> {ExampleInput(prof)[n + 1]}
      [] prof = "doc" ->
             {Doctype, Comment, StartTag("html"), StartTag("body"), EndTag("body"),
              EndTag("html"), X}
      [] prof = "foreign" ->
             {StartTag("svg"), StartTag("template"), StartTag("desc"),
              StartTag("select"), EndTag("select")}
      [] prof = "table" ->
             {StartTag("table"), StartTag("td"), X, EndTag("table"), StartTag("select")}
      [] prof = "fmt" ->
             {StartTag("p"), StartTag("b"), StartTag("a"), EndTag("b"), EndTag("p"), X}
      [] prof = "text" ->
             {StartTag("table"), StartTag("b"), EndTag("table"), X, Y}
      [] prof = "frag" ->
             {StartTag("template"), EndTag("template"), StartTag("td"), StartTag("svg"), X}
      [] prof = "root" ->
             {EndTag("html"), EndTag("p"), EndTag("svg"), StartTag("svg"), StartTag("frameset")}
      [] prof = "noah" ->
             {StartTag("b"),
              StartTagA("b", <<Attr("x", "1"), Attr("y", "2")>>),
              StartTagA("b", <<Attr("y", "2"), Attr("x", "1")>>),
              StartTag("applet"), EndTag("applet")}
      [] prof = "solidus" ->
             {StartTagSC("br"), StartTagSC("div"), StartTagSC("desc"), StartTag("svg"),
              StartTag("div")}
      [] prof = "roundtrip" ->
             {StartTag("plaintext"), StartTag("a"), StartTag("table"), StartTag("form"),
              EndTag("form"), StartTag("div"), StartTag("pre"),
              Chars("WHITESPACE_CHARACTER", <<LINE_FEED>>), StartTag("p")}
      [] prof = "markup" ->
             {StartTag("template"), StartTagA("br", <<Attr("title", "\"")>>),
              StartTag("title"), EndTag("title"), Text("<"), Text("&"), Comment}
      [] prof = "reset" ->
             {StartTag("table"), StartTag("td"), EndTag("table"), StartTag("select"),
              EndTag("select"), StartTag("template"), EndTag("template")}
      [] prof = "foster" ->
             {StartTag("table"), StartTag("template"), StartTag("b"), StartTag("tr"), X,
              Chars("WHITESPACE_CHARACTER", <<LINE_FEED>>)}
      [] prof = "reconstruct" ->
             {StartTag("applet"), StartTag("p"), StartTag("b"), StartTag("i"), EndTag("p"), X}
      [] prof = "noentry" ->
             IF n < NOAH_ARK_CAPACITY + 1 THEN {StartTag("b")} ELSE {EndTag("b"), X}
      [] prof = "tmpl" ->
             {StartTag("template"), EndTag("template"), StartTag("b"), StartTag("td"),
              StartTag("tr"), StartTag("col"), StartTag("tbody"), StartTag("svg")}
      [] prof = "fc" ->
             {StartTag("svg"), StartTag("foreignobject"), StartTag("desc"), StartTag("div"),
              EndTag("foreignobject"), EndTag("div"), EndTag("svg")}
      [] prof = "script" ->
             {StartTag("body"), StartTag("script"), X, EndTag("script"), StartTag("p")}
      [] prof = "chunks" ->
             {StartTag("pre"), Chars("WHITESPACE_CHARACTER", <<LINE_FEED>>),
              Chars("WHITESPACE_CHARACTER", <<LINE_FEED, " ">>), X, StartTag("b"),
              StartTag("script")}
      [] prof = "aaWide" ->
             IF n = 0 THEN {StartTag("b")}
             ELSE {StartTag("i"), StartTag("u"), StartTag("div"), EndTag("b")}
      [] prof = "aaDeep" ->
             IF n = 0 THEN {StartTag("b")} ELSE {StartTag("div"), EndTag("b")}
      [] OTHER -> {}

MaxTokensRoundtrip == 4

MaxTokensReset == 4

MaxTokensNoEntry == 8

MaxTokensTmpl == 4

MaxTokensForeign == 4

\* Longest token sequence of the chunked-input profile.
MaxTokensChunks == 4

MaxLen(prof) ==
    CASE prof = "noentry" -> MaxTokensNoEntry
      [] prof = "tmpl" -> MaxTokensTmpl
      [] prof = "fc" -> MaxTokensForeign
      [] prof = "chunks" -> MaxTokensChunks
      [] prof \in {"misnested", "fostered"} -> Len(ExampleInput(prof))
      [] prof = "aaWide" -> MaxTokensAA
      [] prof = "aaDeep" -> MaxTokensDeep
      [] prof \in {"roundtrip", "markup"} -> MaxTokensRoundtrip
      [] prof = "reset" -> MaxTokensReset
      [] OTHER -> MaxTokens

TextStates == {"RCDATA", "RAWTEXT", "SCRIPT_DATA"}

\* The tokens getNextToken can return after n delivered tokens (the
\* Hibernation sentinel apart).  In the text states only characters and the
\* appropriate end tag are tokens; after EOF there is only EOF.
getNextToken(s, prof, n) ==
    IF s.tokenizer.eof \/ n >= MaxLen(prof) THEN {EOFToken}
    ELSE {EOFToken} \cup
         CASE s.tokenizer.state = "DATA" -> Alphabet(prof, n)
           [] s.tokenizer.state \in TextStates ->
                  {X, EndTag(s.tokenizer.lastStartTagName)}
           [] OTHER -> {X}

\* The tokenizer's own bookkeeping when it emits a token.
Emit(s, token) ==
    [s EXCEPT !.tokenizer.lastStartTagName =
                  IF token.type = "START_TAG" THEN token.tagName ELSE @,
              !.tokenizer.state =
                  IF token.type = "END_TAG" /\ @ \in TextStates THEN "DATA" ELSE @,
              !.tokenizer.eof = @ \/ token.type = "EOF"]

\* ------------------------------------------------------ fragment parsing
RECURSIVE FindForm(_, _)
FindForm(s, node) ==
    IF node = 0 THEN 0
    ELSE IF getTagName(s, node) = "form" THEN node
    ELSE FindForm(s, s.nodes[node].parentNode)

_findFormInFragmentContext(s) ==
    LET form == FindForm(s, s.fragmentContext)
    IN  IF form # 0 THEN [s EXCEPT !.formElement = form] ELSE s

_initTokenizerForFragmentParsing(s) ==
    IF s.fragmentContext = 0 \/ getNamespaceURI(s, s.fragmentContext) # HTML THEN s
    ELSE LET tid == s.fragmentContextID
         IN  CASE tid \in {"title", "textarea"} -> [s EXCEPT !.tokenizer.state = "RCDATA"]
               [] tid \in {"style", "xmp", "iframe", "noembed", "noframes", "noscript"} ->
                      [s EXCEPT !.tokenizer.state = "RAWTEXT"]
               [] tid = "script" -> [s EXCEPT !.tokenizer.state = "SCRIPT_DATA"]
               [] tid = "plaintext" -> [s EXCEPT !.tokenizer.state = "PLAINTEXT"]
               [] OTHER -> s

\* The parser after _bootstrap(documentMock, fragmentContext): node 1 is the
\* document mock, node 2 the context element.
BootstrapMock(onParseError, locInfo, scripting, tagName, ns) ==
    LET s0 == Bootstrap(onParseError, locInfo, scripting)
        s1 == [s0 EXCEPT !.nodes = <<NewNode("element", "documentmock", HTML, <<>>, <<>>),
                                     NewNode("element", tagName, ns, <<>>, <<>>)>>,
                         !.fragmentContext = 2,
                         !.fragmentContextID = getTagID(tagName)]
    IN  _setContextModes(s1, s1.fragmentContext, s1.fragmentContextID)

\* Parser.parseFragment up to the first token: the template mode for a
\* <template> context, the tokenizer state, the fake root, the insertion
\* mode and the form pointer.
BeginFragment(s) ==
    _findFormInFragmentContext(
        _resetInsertionMode(
            _insertFakeRootElement(
                _initTokenizerForFragmentParsing(
                    IF s.fragmentContextID = "template"
                    THEN [s EXCEPT !.tmplInsertionModeStack = <<"IN_TEMPLATE">> \o @]
                    ELSE s))))

\* A parseFragment that pushes no template mode for the context.
BootstrapFragmentNoMode(onParseError, locInfo, scripting, tagName, ns) ==
    LET s == BootstrapMock(onParseError, locInfo, scripting, tagName, ns)
    IN  _findFormInFragmentContext(
            _resetInsertionMode(
                _insertFakeRootElement(_initTokenizerForFragmentParsing(s))))

BootstrapFragment(onParseError, locInfo, scripting, tagName, ns) ==
    BeginFragment(BootstrapMock(onParseError, locInfo, scripting, tagName, ns))

\* Parser.parseFragment after the loop: the children of the root element
\* are adopted by a fresh fragment.
AdoptIntoFragment(s) ==
    LET rootElement == s.nodes[DocId].childNodes[1]
        s1 == createDocumentFragment(s)
    IN  _adoptNodes(s1, rootElement, LastId(s1))

\* What parse or parseFragment does after the loop.
AfterLoop(s) == IF s.fragmentContext = 0 THEN s ELSE AdoptIntoFragment(s)

\* --------------------------------------------------------- parsing loop
\* while (true)
LoopForever(s) == TRUE

\* while (!this.stopped)
LoopGuard(s) == ~s.stopped

\* One iteration of Parser._runParsingLoop on the token `tok`, the n-th
\* token of the input.
LoopBody(s, tok, n) ==
    LET token == [tok EXCEPT !.location = IF s.options.sourceCodeLocationInfo THEN n ELSE 0]
        s0 == Emit(s, token)
        s1 == [s0 EXCEPT !.skipNextNewLine = FALSE]
        isLineFeed == /\ s0.skipNextNewLine
                      /\ token.type = "WHITESPACE_CHARACTER"
                      /\ token.chars[1] = LINE_FEED
        rest == IF isLineFeed THEN [token EXCEPT !.chars = Tail(@)] ELSE token
    IN  IF isLineFeed /\ Len(token.chars) = 1 THEN s1
        ELSE Dispatch("_processInputToken", [s1 EXCEPT !.currentToken = rest], rest)

\* A loop that never looks at pendingScript.
LoopIgnoresScript(s, scriptHandler) == FALSE

\* if (scriptHandler !== null && this.pendingScript) break;
LoopBreaksForScript(s, scriptHandler) == scriptHandler /\ s.pendingScript # 0

\* The script is handed over before pendingScript is cleared, and the write
\* callback runs as well.
ChunkCallbacksFallThrough(s, scriptHandler) ==
    IF scriptHandler /\ s.pendingScript # 0
    THEN [s |-> [s EXCEPT !.pendingScript = 0],
          calls |-> <<[fn |-> "scriptHandler", arg |-> s.pendingScript,
                       pendingScript |-> s.pendingScript],
                      [fn |-> "writeCallback", arg |-> 0, pendingScript |-> 0]>>]
    ELSE [s |-> s,
          calls |-> <<[fn |-> "writeCallback", arg |-> 0, pendingScript |-> s.pendingScript]>>]

\* A tail that forgets a pending line-feed suppression.
ChunkCallbacksClearingFlag(s, scriptHandler) ==
    IF scriptHandler /\ s.pendingScript # 0
    THEN [s |-> [s EXCEPT !.pendingScript = 0, !.skipNextNewLine = FALSE],
          calls |-> <<[fn |-> "scriptHandler", arg |-> s.pendingScript, pendingScript |-> 0]>>]
    ELSE [s |-> [s EXCEPT !.skipNextNewLine = FALSE],
          calls |-> <<[fn |-> "writeCallback", arg |-> 0, pendingScript |-> s.pendingScript]>>]

\* The tail of runParsingLoopForCurrentChunk: the callbacks it invokes, each
\* with the value pendingScript has at the time of the call.
ChunkCallbacks(s, scriptHandler) ==
    IF scriptHandler /\ s.pendingScript # 0
    THEN [s |-> [s EXCEPT !.pendingScript = 0],
          calls |-> <<[fn |-> "scriptHandler", arg |-> s.pendingScript, pendingScript |-> 0]>>]
    ELSE [s |-> s,
          calls |-> <<[fn |-> "writeCallback", arg |-> 0, pendingScript |-> s.pendingScript]>>]

\* ------------------------------------------------------------ serializer
VOID_ELEMENTS ==
    { "area", "base", "basefont", "bgsound", "br", "col", "embed", "frame", "hr",
      "img", "input", "keygen", "link", "meta", "param", "source", "track", "wbr" }

UNESCAPED_TEXT ==
    { "style", "script", "xmp", "iframe", "noembed", "noframes", "plaintext", "noscript" }

NBSP == "\\u00A0"

\* escapeString on one character (an attribute value of the model is one
\* character).
escapeChar(c, attrMode) ==
    CASE c = "&" -> "&amp;"
      [] c = NBSP -> "&nbsp;"
      [] attrMode /\ c = "\"" -> "&quot;"
      [] ~attrMode /\ c = "<" -> "&lt;"
      [] ~attrMode /\ c = ">" -> "&gt;"
      [] OTHER -> c

escapeString(str, attrMode) == [i \in 1..Len(str) |-> escapeChar(str[i], attrMode)]

\* The serialized html is the sequence of the pieces appended to `html`: a
\* start tag, an end tag, the content of a text node, a comment, a doctype.
Piece(piece, tagName, attrs, chars) ==
    [piece |-> piece, tagName |-> tagName, attrs |-> attrs, chars |-> chars]

\* The attributes of the model carry no namespace: `!attr.namespace`.
_serializeAttributes(s, node) ==
    [i \in 1..Len(s.nodes[node].attrs) |->
        Attr(s.nodes[node].attrs[i].name, escapeChar(s.nodes[node].attrs[i].value, TRUE))]

_serializeTextNode(s, node) ==
    LET content == s.nodes[node].data
        parent == s.nodes[node].parentNode
    IN  <<Piece("text", "", <<>>,
                IF /\ parent # 0
                   /\ s.nodes[parent].kind = "element"
                   /\ getTagName(s, parent) \in UNESCAPED_TEXT
                THEN content
                ELSE escapeString(content, FALSE))>>

_serializeCommentNode(s, node) == <<Piece("comment", "", <<>>, s.nodes[node].data)>>

_serializeDocumentTypeNode(s, node) == <<Piece("doctype", s.nodes[node].tagName, <<>>, <<>>)>>

RECURSIVE SerializeFrom(_, _, _)

_serializeChildNodes(s, parentNode) == SerializeFrom(s, s.nodes[parentNode].childNodes, 1)

\* A serializer that writes the children of a template, not its content.
_serializeElementOwnChildren(s, node) ==
    LET tn == getTagName(s, node)
    IN  <<Piece("start", tn, _serializeAttributes(s, node), <<>>)>>
            \o (IF tn \notin VOID_ELEMENTS
                THEN _serializeChildNodes(s, node) \o <<Piece("end", tn, <<>>, <<>>)>>
                ELSE <<>>)

_serializeElement(s, node) ==
    LET tn == getTagName(s, node)
        ns == getNamespaceURI(s, node)
        childNodesHolder == IF tn = "template" /\ ns = HTML
                            THEN getTemplateContent(s, node) ELSE node
    IN  <<Piece("start", tn, _serializeAttributes(s, node), <<>>)>>
            \o (IF tn \notin VOID_ELEMENTS
                THEN _serializeChildNodes(s, childNodesHolder)
                         \o <<Piece("end", tn, <<>>, <<>>)>>
                ELSE <<>>)

\* _serializeChildNodes: the loop over the child nodes, from the i-th on.
SerializeFrom(s, childNodes, i) ==
    IF i > Len(childNodes) THEN <<>>
    ELSE LET currentNode == childNodes[i]
             kind == s.nodes[currentNode].kind
         IN  (CASE kind = "element" -> _serializeElement(s, currentNode)
                [] kind = "text" -> _serializeTextNode(s, currentNode)
                [] kind = "comment" -> _serializeCommentNode(s, currentNode)
                [] kind = "doctype" -> _serializeDocumentTypeNode(s, currentNode)
                [] OTHER -> <<>>)
             \o SerializeFrom(s, childNodes, i + 1)

\* serialize(node)
serialize(s, node) == _serializeChildNodes(s, node)

\* ------------------------------------------- tokenizer on serialized html
\* What the tokenizer makes of a character reference.
unescapeChar(c) ==
    CASE c = "&amp;" -> "&"
      [] c = "&nbsp;" -> NBSP
      [] c = "&quot;" -> "\""
      [] c = "&lt;" -> "<"
      [] c = "&gt;" -> ">"
      [] OTHER -> c

unescapeString(str) == [i \in 1..Len(str) |-> unescapeChar(str[i])]

CharType(c) ==
    IF c \in {LINE_FEED, " ", "\t", "\f"} THEN "WHITESPACE_CHARACTER" ELSE "CHARACTER"

\* Character tokens hold characters of one type: a text is cut into runs.
RECURSIVE CharacterTokens(_, _)
CharacterTokens(str, acc) ==
    IF str = <<>> THEN acc
    ELSE IF acc # <<>> /\ acc[Len(acc)].type = CharType(Head(str))
    THEN CharacterTokens(Tail(str),
             [acc EXCEPT ![Len(acc)].chars = Append(@, Head(str))])
    ELSE CharacterTokens(Tail(str), Append(acc, Chars(CharType(Head(str)), <<Head(str)>>)))

\* The piece as it is written in the html, tags as one character each.
PieceText(piece) ==
    CASE piece.piece = "text" -> piece.chars
      [] piece.piece = "start" -> <<"<" \o piece.tagName \o ">">>
      [] piece.piece = "end" -> <<"</" \o piece.tagName \o ">">>
      [] piece.piece = "comment" -> <<"<!--">> \o piece.chars \o <<"-->">>
      [] OTHER -> <<"<!DOCTYPE " \o piece.tagName \o ">">>

\* The tokens the tokenizer, in the state the parser has put it in, makes
\* of the next piece of the html.
TokensOfPiece(s, piece) ==
    LET state == s.tokenizer.state
    IN  IF state = "PLAINTEXT" THEN CharacterTokens(PieceText(piece), <<>>)
        ELSE IF state \in TextStates
        THEN IF piece.piece = "end" /\ piece.tagName = s.tokenizer.lastStartTagName
             THEN <<EndTag(piece.tagName)>>
             ELSE CharacterTokens(IF state = "RCDATA" /\ piece.piece = "text"
                                  THEN unescapeString(piece.chars)
                                  ELSE PieceText(piece), <<>>)
        ELSE CASE piece.piece = "text" -> CharacterTokens(unescapeString(piece.chars), <<>>)
               [] piece.piece = "start" ->
                      <<StartTagA(piece.tagName,
                                  [i \in 1..Len(piece.attrs) |->
                                      Attr(piece.attrs[i].name,
                                           unescapeChar(piece.attrs[i].value))])>>
               [] piece.piece = "end" -> <<EndTag(piece.tagName)>>
               [] piece.piece = "comment" -> <<Token("COMMENT", "", <<>>, FALSE, piece.chars)>>
               [] OTHER -> <<Token("DOCTYPE", piece.tagName, <<>>, FALSE, <<>>)>>

\* Parser.parse on serialized html: _runParsingLoop over the tokens of the
\* pieces from the i-th on, then over EOF.
RECURSIVE ParsePieces(_, _, _, _)
\* `tokens` are the tokens of the pieces before the i-th that are still to
\* be dispatched.
ParsePieces(s, tokens, html, i) ==
    IF s.crashed \/ ~LoopGuard(s) THEN s
    ELSE IF tokens = <<>> /\ i <= Len(html)
    THEN ParsePieces(s, TokensOfPiece(s, html[i]), html, i + 1)
    ELSE ParsePieces(LoopBody(s, IF tokens = <<>> THEN EOFToken ELSE Head(tokens), i),
                     IF tokens = <<>> THEN <<>> ELSE Tail(tokens), html, i)

\* parse(serialize(document)) with the options of the parser s.
Reparse(s) ==
    ParsePieces(Bootstrap(s.options.onParseError, s.options.sourceCodeLocationInfo,
                          s.options.scriptingEnabled),
                <<>>, serialize(s, DocId), 1)

\* ---------------------------------------------------------------- actions
\* No ParserFeedbackSimulator and no Preprocessor has been constructed.
NoSimulator == [constructed |-> FALSE]

NoPreprocessor == [constructed |-> FALSE]

HasScriptHandler == api = "stream"

InitWith(profiles, pair) ==
    /\ profile \in profiles
    /\ api \in {"parse", "stream"}
    /\ p = Bootstrap(~pair, ~pair, TRUE)
    /\ shadow = IF pair THEN <<Bootstrap(TRUE, FALSE, TRUE)>> ELSE <<>>
    /\ pc = "idle"
    /\ fed = 0
    /\ calls = <<>>
    /\ simulator = NoSimulator
    /\ preprocessor = NoPreprocessor
    /\ hist = [dispatched |-> 0, eofs |-> 0, done |-> FALSE]

Init == InitWith({"doc", "foreign", "table", "fmt"}, FALSE)

InitAA == InitWith({"aaWide", "aaDeep"}, FALSE)

InitScript == InitWith({"script"}, FALSE)

InitPair == InitWith({"doc", "foreign", "table", "fmt"}, TRUE)

InitText == InitWith({"text"}, FALSE)

\* Four parsers on one input: constructed without a sink and without
\* location info (p), with a sink and sourceCodeLocationInfo: false, with a
\* sink and sourceCodeLocationInfo: true, and with location info alone.
InitOptions ==
    /\ profile = "fmt"
    /\ api \in {"parse", "stream"}
    /\ p = Bootstrap(FALSE, FALSE, TRUE)
    /\ shadow = <<Bootstrap(TRUE, FALSE, TRUE), Bootstrap(TRUE, TRUE, TRUE),
                  Bootstrap(FALSE, TRUE, TRUE)>>
    /\ pc = "idle"
    /\ fed = 0
    /\ calls = <<>>
    /\ simulator = NoSimulator
    /\ preprocessor = NoPreprocessor
    /\ hist = [dispatched |-> 0, eofs |-> 0, done |-> FALSE]

InitSolidus == InitWith({"solidus"}, FALSE)

InitNoah == InitWith({"noah"}, FALSE)

\* Context elements of the fragment runs: the default <template>, and
\* elements given by the caller.
FragmentContexts == {"template", "table", "div"}

\* parse or the chunked loop on the literal inputs, or on a prefix of one,
\* with and without a parse-error sink and location info.
InitExamples ==
    /\ profile \in {"misnested", "fostered"}
    /\ api \in {"parse", "stream"}
    /\ \E onParseError, locInfo \in BOOLEAN : p = Bootstrap(onParseError, locInfo, TRUE)
    /\ shadow = <<>>
    /\ pc = "idle"
    /\ fed = 0
    /\ calls = <<>>
    /\ simulator = NoSimulator
    /\ preprocessor = NoPreprocessor
    /\ hist = [dispatched |-> 0, eofs |-> 0, done |-> FALSE]

\* parseFragment in an HTML <template> or <td> or an SVG <svg> context, or
\* parse, on end tags and on start tags that pop.
InitRoot ==
    /\ profile = "root"
    /\ api \in {"parse", "stream"}
    /\ \/ \E tagName \in {"template", "td"} :
              p = BootstrapFragment(TRUE, TRUE, TRUE, tagName, HTML)
       \/ p = BootstrapFragment(TRUE, TRUE, TRUE, "svg", SVG)
       \/ p = Bootstrap(TRUE, TRUE, TRUE)
    /\ shadow = <<>>
    /\ pc = "idle"
    /\ fed = 0
    /\ calls = <<>>
    /\ simulator = NoSimulator
    /\ preprocessor = NoPreprocessor
    /\ hist = [dispatched |-> 0, eofs |-> 0, done |-> FALSE]

\* parseFragment with one of the contexts, or parse, on the same inputs.
InitFragment ==
    /\ profile = "frag"
    /\ api \in {"parse", "stream"}
    /\ \/ \E tagName \in FragmentContexts :
              p = BootstrapFragment(TRUE, TRUE, TRUE, tagName, HTML)
       \/ p = Bootstrap(TRUE, TRUE, TRUE)
    /\ shadow = <<>>
    /\ pc = "idle"
    /\ fed = 0
    /\ calls = <<>>
    /\ simulator = NoSimulator
    /\ preprocessor = NoPreprocessor
    /\ hist = [dispatched |-> 0, eofs |-> 0, done |-> FALSE]

InitFoster == InitWith({"foster"}, FALSE)

InitReconstruct == InitWith({"reconstruct", "noentry"}, FALSE)

ResetContexts ==
    { "tr", "tbody", "caption", "colgroup", "table", "body", "frameset", "td", "head",
      "select", "template", "html" }

InitReset ==
    /\ profile = "reset"
    /\ api \in {"parse", "stream"}
    /\ \/ \E tagName \in ResetContexts :
              p = BootstrapFragment(TRUE, TRUE, TRUE, tagName, HTML)
       \/ p = Bootstrap(TRUE, TRUE, TRUE)
    /\ shadow = <<>>
    /\ pc = "idle"
    /\ fed = 0
    /\ calls = <<>>
    /\ simulator = NoSimulator
    /\ preprocessor = NoPreprocessor
    /\ hist = [dispatched |-> 0, eofs |-> 0, done |-> FALSE]

\* parse, or parseFragment in a <template> context, with a parse-error
\* sink.
InitTemplate ==
    /\ profile = "tmpl"
    /\ api \in {"parse", "stream"}
    /\ \/ p = BootstrapFragment(TRUE, TRUE, TRUE, "template", HTML)
       \/ p = Bootstrap(TRUE, TRUE, TRUE)
    /\ shadow = <<>>
    /\ pc = "idle"
    /\ fed = 0
    /\ calls = <<>>
    /\ simulator = NoSimulator
    /\ preprocessor = NoPreprocessor
    /\ hist = [dispatched |-> 0, eofs |-> 0, done |-> FALSE]

\* parse, or parseFragment in an HTML <div> or an SVG <svg> context.
InitForeign ==
    /\ profile = "fc"
    /\ api \in {"parse", "stream"}
    /\ \/ p = BootstrapFragment(TRUE, TRUE, TRUE, "div", HTML)
       \/ p = BootstrapFragment(TRUE, TRUE, TRUE, "svg", SVG)
       \/ p = Bootstrap(TRUE, TRUE, TRUE)
    /\ shadow = <<>>
    /\ pc = "idle"
    /\ fed = 0
    /\ calls = <<>>
    /\ simulator = NoSimulator
    /\ preprocessor = NoPreprocessor
    /\ hist = [dispatched |-> 0, eofs |-> 0, done |-> FALSE]

InitRoundtrip == InitWith({"roundtrip", "markup"}, FALSE)

\* parse or the chunked loop on one input; the run keeps the tokens it
\* dispatched and the positions at which the input ran out.
InitChunks ==
    /\ profile = "chunks"
    /\ api \in {"parse", "stream"}
    /\ p = Bootstrap(TRUE, TRUE, TRUE)
    /\ shadow = <<>>
    /\ pc = "idle"
    /\ fed = 0
    /\ calls = <<>>
    /\ simulator = NoSimulator
    /\ preprocessor = NoPreprocessor
    /\ hist = [dispatched |-> 0, eofs |-> 0, done |-> FALSE, tokens |-> <<>>, cuts |-> {}]

\* parse(html) or runParsingLoopForCurrentChunk(...) is entered.
Call ==
    /\ pc = "idle"
    /\ ~hist.done
    /\ pc' = "loop"
    /\ UNCHANGED <<p, shadow, fed, profile, api, calls, hist, simulator, preprocessor>>

\* The loop body on the parser and on the parsers that shadow it.
LoopBodies(ps, tok, n) == [i \in 1..Len(ps) |-> LoopBody(ps[i], tok, n)]

\* The history of a run that keeps its tokens also keeps `tok`.
RecordToken(h, tok) ==
    IF "tokens" \in DOMAIN h THEN [h EXCEPT !.tokens = Append(@, tok)] ELSE h

\* The history of a run that keeps its tokens also keeps that the input
\* ran out after n tokens.
RecordCut(h, n) ==
    IF "cuts" \in DOMAIN h THEN [h EXCEPT !.cuts = @ \cup {n}] ELSE h

\* The iteration on `tok` has left the parsers as `qs`.
LoopStepTo(qs, tok) ==
    /\ p' = qs[1]
    /\ shadow' = Tail(qs)
    /\ fed' = IF tok.type = "EOF" THEN fed ELSE fed + 1
    /\ hist' = RecordToken([hist EXCEPT !.dispatched = @ + 1,
                                        !.eofs = IF tok.type = "EOF" THEN @ + 1 ELSE @],
                            tok)
    /\ pc' = IF qs[1].crashed THEN "thrown"
             ELSE IF LoopBreaksForScript(qs[1], HasScriptHandler) THEN "exit"
             ELSE "loop"

\* One iteration of the loop: a token is fetched and dispatched.
LoopStep ==
    /\ pc = "loop"
    /\ LoopGuard(p)
    /\ hist.eofs < MaxEofFetches
    /\ \E tok \in getNextToken(p, profile, fed) :
           LoopStepTo(LoopBodies(<<p>> \o shadow, tok, fed + hist.eofs + 1), tok)
    /\ UNCHANGED <<profile, api, calls, simulator, preprocessor>>

\* The tokenizer has no complete token left in the current chunk.
LoopHibernate ==
    /\ pc = "loop"
    /\ LoopGuard(p)
    /\ api = "stream"
    /\ ~p.tokenizer.eof
    /\ fed <= MaxCut
    /\ pc' = "exit"
    /\ hist' = RecordCut(hist, fed)
    /\ UNCHANGED <<p, shadow, fed, profile, api, calls, simulator, preprocessor>>

\* The loop condition fails.
LoopStopped ==
    /\ pc = "loop"
    /\ ~LoopGuard(p)
    /\ pc' = "exit"
    /\ UNCHANGED <<p, shadow, fed, profile, api, calls, hist, simulator, preprocessor>>

\* The entry point returns: parse hands back the document,
\* runParsingLoopForCurrentChunk invokes its callback.
Return ==
    /\ pc = "exit"
    /\ pc' = "idle"
    /\ IF api = "stream"
       THEN /\ p' = ChunkCallbacks(p, TRUE).s
            /\ shadow' = [i \in 1..Len(shadow) |-> ChunkCallbacks(shadow[i], TRUE).s]
            /\ calls' = ChunkCallbacks(p, TRUE).calls
       ELSE /\ p' = AfterLoop(p)
            /\ shadow' = [i \in 1..Len(shadow) |-> AfterLoop(shadow[i])]
            /\ calls' = <<[fn |-> "return",
                           arg |-> IF p.fragmentContext = 0 THEN DocId ELSE LastId(p'),
                           pendingScript |-> p.pendingScript]>>
    /\ hist' = [hist EXCEPT !.done = (api = "parse") \/ p.stopped]
    /\ UNCHANGED <<fed, profile, api, simulator, preprocessor>>

Next == Call \/ LoopStep \/ LoopHibernate \/ LoopStopped \/ Return

\* The finished document is serialized and the html is parsed again, by a
\* parser kept in `shadow`.
SerializeAndParse ==
    /\ pc = "idle"
    /\ hist.done
    /\ shadow = <<>>
    /\ shadow' = <<Reparse(p)>>
    /\ UNCHANGED <<p, pc, fed, profile, api, calls, hist, simulator, preprocessor>>

NextRoundtrip == Next \/ SerializeAndParse

Spec == Init /\ [][Next]_vars

SpecAA == InitAA /\ [][Next]_vars

SpecScript == InitScript /\ [][Next]_vars

SpecPair == InitPair /\ [][Next]_vars

SpecText == InitText /\ [][Next]_vars

SpecOptions == InitOptions /\ [][Next]_vars

SpecSolidus == InitSolidus /\ [][Next]_vars

SpecNoah == InitNoah /\ [][Next]_vars

SpecFragment == InitFragment /\ [][Next]_vars

SpecRoot == InitRoot /\ [][Next]_vars

SpecExamples == InitExamples /\ [][Next]_vars

SpecRoundtrip == InitRoundtrip /\ [][NextRoundtrip]_vars

SpecReset == InitReset /\ [][Next]_vars

SpecReconstruct == InitReconstruct /\ [][Next]_vars

SpecTemplate == InitTemplate /\ [][Next]_vars

SpecForeign == InitForeign /\ [][Next]_vars

SpecChunks == InitChunks /\ [][Next]_vars

\* Between two chunks the host takes an open <table> out of the tree
\* through the tree adapter.
HostDetachesTable ==
    /\ pc = "idle"
    /\ api = "stream"
    /\ ~hist.done
    /\ \A i \in 1..Len(p.openElements.items) :
           p.openElements.tagIDs[i] = "table" => p.nodes[p.openElements.items[i]].parentNode # 0
    /\ \E i \in 1..Len(p.openElements.items) :
           /\ p.openElements.tagIDs[i] = "table"
           /\ p' = detachNode(p, p.openElements.items[i])
    /\ UNCHANGED <<shadow, pc, fed, profile, api, calls, hist, simulator, preprocessor>>

NextFoster == Next \/ HostDetachesTable

SpecFoster == InitFoster /\ [][NextFoster]_vars


\* ================================================================ claims
\* parse(html) has returned the document.
Returned == api = "parse" /\ Len(calls) = 1 /\ calls[1].fn = "return"

ElementChildren(s, node) ==
    SelectSeq(s.nodes[node].childNodes, LAMBDA c : s.nodes[c].kind = "element")

\* C1: for every input, after parse returns, the document has at most one
\* child element, and that child is an <html> element in the HTML namespace.
C1_RootHasOnlyHtmlChild ==
    Returned =>
        LET kids == ElementChildren(p, DocId)
        IN  /\ Len(kids) <= 1
            /\ \A i \in 1..Len(kids) :
                   /\ getTagName(p, kids[i]) = "html"
                   /\ getNamespaceURI(p, kids[i]) = HTML

\* parse has returned a document that holds a doctype, the <html> element
\* and a comment after it.
C1_Witness ==
    /\ Returned
    /\ Len(ElementChildren(p, DocId)) = 1
    /\ Len(p.nodes[DocId].childNodes) >= 3

\* C2 (as amended): the step that stops the parser leaves the root <html>
\* element at index 0 of the open-element stack, and when EOF is handled in
\* the "in body" mode outside templates it changes neither the stack nor
\* the list of active formatting elements: both keep what was open at EOF.
C2_StackKeptAtStop ==
    [][(~p.stopped /\ p'.stopped) =>
          /\ Len(p'.openElements.items) >= 1
          /\ p'.openElements.tagIDs[1] = "html"
          /\ (p.insertionMode = "IN_BODY" /\ p.tmplInsertionModeStack = <<>>) =>
                 /\ p'.openElements = p.openElements
                 /\ p'.activeFormattingElements = p.activeFormattingElements]_vars

\* parse has returned with <html>, <body> and a formatting element still on
\* the stack and an entry still on the formatting list.
C2_Witness ==
    /\ Returned
    /\ p.stopped
    /\ Len(p.openElements.items) >= 3
    /\ Len(p.activeFormattingElements.entries) >= 1

\* C2 (as stated): when parsing returns, the open-element stack is empty
\* and the active formatting list is empty.
C2_StackEmptyAtReturn ==
    Returned =>
        /\ Len(p.openElements.items) = 0
        /\ Len(p.activeFormattingElements.entries) = 0

\* C3: once the EOF token has been dispatched, stopped is set: no insertion
\* mode drops EOF.
C3_EofStops == hist.eofs > 0 => p.stopped

\* C4: every token is handled by a handler of a defined insertion mode, and
\* no handler throws.
C4_EveryTokenHandled == p.dropped = 0 /\ ~p.crashed

\* C5 (as amended): in one invocation of the adoption agency algorithm the
\* outer loop runs at most 8 times, and in each outer iteration the inner
\* loop recreates an element only in its first 3 iterations: from the
\* fourth iteration on it only discards elements, and it runs until it
\* arrives at the formatting element.
C5_LoopsBounded == p.aaOuter <= 8 /\ p.aaRecreateIter <= 3

\* An inner loop has run a fourth iteration after recreating an element in
\* its third.
C5_Witness == p.aaInner >= 4 /\ p.aaRecreateIter = 3 /\ p.aaOuter >= 2

\* C5 (as stated): the outer loop runs at most 8 times and the inner loop
\* at most 3 times per outer iteration.
C5_InnerAtMostThree == p.aaOuter <= 8 /\ p.aaInner <= 3

\* The step dispatches one token.
Dispatches == hist'.dispatched = hist.dispatched + 1

IsTag(token, type, tagID) == token.type = type /\ token.tagID = tagID

LastChild(s, node) ==
    IF s.nodes[node].childNodes = <<>> THEN 0
    ELSE s.nodes[node].childNodes[Len(s.nodes[node].childNodes)]

\* The last call handed a script to the script handler.
HandedScript ==
    HasScriptHandler /\ Len(calls) = 1 /\ calls[1].fn = "scriptHandler"

\* C7: with a script handler, the step that processes </script> in the TEXT
\* mode sets pendingScript to the <script> element and leaves the loop; no
\* token is dispatched between the exit and the next call; and the <p>
\* dispatched after the resume while the script is the last child of
\* <body> is appended to <body> right after the script.
C7_ScriptPause ==
    [][/\ (/\ Dispatches
           /\ HasScriptHandler
           /\ p.insertionMode = "TEXT"
           /\ IsTag(p'.currentToken, "END_TAG", "script"))
          => /\ getTagName(p, current(p)) = "script"
             /\ p'.pendingScript = current(p)
             /\ pc' = "exit"
       /\ pc = "exit" => (hist'.dispatched = hist.dispatched /\ fed' = fed)
       /\ (/\ Dispatches
           /\ HandedScript
           /\ IsTag(p'.currentToken, "START_TAG", "p")
           /\ current(p) = p.nodes[calls[1].arg].parentNode
           /\ getTagName(p, current(p)) = "body"
           /\ LastChild(p, current(p)) = calls[1].arg)
          => LET parent == current(p)
                 before == p.nodes[parent].childNodes
                 after == p'.nodes[parent].childNodes
             IN  /\ Len(after) = Len(before) + 1
                 /\ SubSeq(after, 1, Len(before)) = before
                 /\ getTagName(p', after[Len(after)]) = "p"
                 /\ current(p') = after[Len(after)]]_vars

\* After a pause at </script> inside <body> the loop was resumed and has
\* inserted <p> as the next sibling of the script.
C7_Witness ==
    /\ HandedScript
    /\ IsTag(p.currentToken, "START_TAG", "p")
    /\ getTagName(p, current(p)) = "p"
    /\ LET siblings == p.nodes[p.nodes[current(p)].parentNode].childNodes
       IN  /\ Len(siblings) >= 2
           /\ siblings[Len(siblings)] = current(p)
           /\ siblings[Len(siblings) - 1] = calls[1].arg
    /\ getTagName(p, p.nodes[current(p)].parentNode) = "body"

\* C8: when runParsingLoopForCurrentChunk ends its loop with a pending
\* script, it calls scriptHandler with that script exactly once, with
\* pendingScript already cleared, and calls nothing else; otherwise it
\* calls writeCallback.
C8_ChunkCallbacks ==
    [][(pc = "exit" /\ pc' = "idle" /\ api = "stream") =>
          IF p.pendingScript # 0
          THEN /\ calls' = <<[fn |-> "scriptHandler", arg |-> p.pendingScript,
                              pendingScript |-> 0]>>
               /\ p'.pendingScript = 0
          ELSE /\ Len(calls') = 1
               /\ calls'[1].fn = "writeCallback"]_vars

\* A chunk call has ended by handing a <script> element to scriptHandler.
C8_Witness ==
    /\ HandedScript
    /\ pc = "idle"
    /\ getTagName(p, calls[1].arg) = "script"
    /\ p.pendingScript = 0

\* C9: once stopped is set, no further token is fetched or dispatched.
C9_StoppedEndsLoop ==
    [][p.stopped => (hist'.dispatched = hist.dispatched /\ fed' = fed)]_vars

\* The parser has been stopped and the loop is at its condition.
C9_Witness == p.stopped /\ pc = "loop" /\ hist.dispatched >= 2

\* C10: the sequence of tree mutations (location data apart) is the same
\* with and without an error callback.
C10_SameMutations ==
    \A i \in 1..Len(shadow) : shadow[i].muts = p.muts /\ shadow[i].crashed = p.crashed

\* The parser with the error callback has reported errors and both parsers
\* have changed the tree.
C10_Witness ==
    /\ Len(shadow) = 1
    /\ Len(shadow[1].errors) >= 2
    /\ Len(p.errors) = 0
    /\ Len(p.muts) >= 4



\* The texts the adapter was asked to insert into the text node `node`, in
\* the order of the calls.
RECURSIVE InsertedInto(_, _, _)
InsertedInto(muts, node, i) ==
    IF i > Len(muts) THEN <<>>
    ELSE (IF muts[i][1] \in {"insertText", "insertTextBefore"} /\ muts[i][3] = node
          THEN muts[i][4] ELSE <<>>) \o InsertedInto(muts, node, i + 1)

IsTextInsertion(mut) == mut[1] \in {"insertText", "insertTextBefore"}

\* C11: character tokens inserted one after the other at the same position
\* (nothing else was done to the tree in between, and the parent is the
\* same, appended to or before the same table) go to one text node, no text
\* node is followed by another text node, and the content of every text node
\* is the concatenation of the characters inserted into it, in order.
C11_OneTextNode ==
    /\ \A i \in 1..(Len(p.muts) - 1) :
           (/\ IsTextInsertion(p.muts[i])
            /\ p.muts[i + 1][1] = p.muts[i][1]
            /\ p.muts[i + 1][2] = p.muts[i][2])
           => p.muts[i + 1][3] = p.muts[i][3]
    /\ \A n \in 1..Len(p.nodes) :
           /\ \A k \in 1..(Len(p.nodes[n].childNodes) - 1) :
                  ~(/\ isTextNode(p, p.nodes[n].childNodes[k])
                    /\ isTextNode(p, p.nodes[n].childNodes[k + 1]))
           /\ isTextNode(p, n) => p.nodes[n].data = InsertedInto(p.muts, n, 1)

\* Two character tokens were foster-parented before a table into one text
\* node "xy", and there is a second text node, inside an element.
C11_Witness ==
    \E n, m \in 1..Len(p.nodes) :
        /\ isTextNode(p, n) /\ isTextNode(p, m) /\ n # m
        /\ p.nodes[n].data = <<"x", "y">>
        /\ InsertedInto(p.muts, n, 1) = <<"x", "y">>
        /\ LET kids == p.nodes[p.nodes[n].parentNode].childNodes
               k == IndexOf(kids, n)
           IN  k < Len(kids) /\ getTagName(p, kids[k + 1]) = "table"
        /\ \E i \in 1..Len(p.muts) : p.muts[i][1] = "insertTextBefore" /\ p.muts[i][3] = n
        /\ \E i \in 1..Len(p.muts) : p.muts[i][1] = "insertText" /\ p.muts[i][3] = m

\* The HTML <template> elements on the open-element stack.
OpenTemplates(s) ==
    {i \in 1..Len(s.openElements.items) :
        s.openElements.tagIDs[i] = "template"
            /\ getNamespaceURI(s, s.openElements.items[i]) = HTML}

RootAtBottom(s) ==
    Len(s.openElements.items) >= 1 =>
        /\ s.openElements.tagIDs[1] = "html"
        /\ getTagName(s, s.openElements.items[1]) = "html"
        /\ getNamespaceURI(s, s.openElements.items[1]) = HTML
        /\ s.nodes[s.openElements.items[1]].parentNode = DocId

FrontSegment(s) ==
    {i \in 1..Len(Entries(s)) : \A j \in 1..i : Entries(s)[j] # MARKER}

AttrSet(attrs) == {attrs[i] : i \in 1..Len(attrs)}

\* Same tag name, namespace and attribute name/value set.
SameKind(s, e1, e2) ==
    /\ getTagName(s, e1) = getTagName(s, e2)
    /\ getNamespaceURI(s, e1) = getNamespaceURI(s, e2)
    /\ Len(s.nodes[e1].attrs) = Len(s.nodes[e2].attrs)
    /\ AttrSet(s.nodes[e1].attrs) = AttrSet(s.nodes[e2].attrs)

\* The positions in the front segment of s whose element is of the kind of
\* `element`, a node of t.
MatchesInFront(s, t, element) ==
    {i \in FrontSegment(s) : SameKind(t, EntryElement(s, Entries(s)[i]), element)}

\* C14: the entries between the front of the formatting list and the
\* nearest marker never hold more than three entries of one kind (tag name,
\* namespace, attribute set); a step that pushes a <b> onto the list puts
\* its entry in front and, when three entries of its kind are there
\* already, drops exactly the oldest of them, and nothing otherwise.
C14_NoahArk ==
    [][ /\ \A i \in FrontSegment(p') :
               Cardinality(MatchesInFront(p', p', EntryElement(p', Entries(p')[i])))
                   <= NOAH_ARK_CAPACITY
        /\ (/\ Dispatches
            /\ IsTag(p'.currentToken, "START_TAG", "b")
            /\ Len(p'.entryHeap) = Len(p.entryHeap) + 1)
           => LET new == Len(p'.entryHeap)
                  matches == MatchesInFront(p, p', EntryElement(p', new))
              IN  Entries(p') =
                      <<new>> \o (IF Cardinality(matches) >= NOAH_ARK_CAPACITY
                                  THEN RemoveAt(Entries(p),
                                                CHOOSE i \in matches :
                                                    \A j \in matches : i >= j)
                                  ELSE Entries(p)) ]_vars

\* A fourth <b x y> was pushed behind no marker: three entries of the kind
\* are left, their attributes written in both orders, and the first entry
\* ever made is gone.
C14_Witness ==
    /\ Len(p.entryHeap) = 4
    /\ Len(Entries(p)) = 3
    /\ \A i \in 1..3 : Entries(p)[i] \in 2..4
    /\ \A i \in 1..3 : Len(p.nodes[EntryElement(p, Entries(p)[i])].attrs) = 2
    /\ \E i \in 1..3 : p.nodes[EntryElement(p, Entries(p)[i])].attrs
                          # p.nodes[EntryElement(p, Entries(p)[1])].attrs

\* The subtree of `node` as a value: <<"#text", characters>> for a text
\* node, <<tag name, shapes of the children>> for any other node.
RECURSIVE Shape(_, _)
Shape(s, node) ==
    IF isTextNode(s, node) THEN <<"#text", s.nodes[node].data>>
    ELSE <<s.nodes[node].tagName,
           [i \in 1..Len(s.nodes[node].childNodes) |->
               Shape(s, s.nodes[node].childNodes[i])]>>

\* The whole of a literal input has been handled.
Handled(prof) == profile = prof /\ fed = Len(ExampleInput(prof))

\* The document whose <body> has the children `kids`.
DocumentOf(kids) == <<"", << <<"html", << <<"head", <<>> >>, <<"body", kids>> >> >> >> >>

\* C15: once <p>1<b>2<i>3</b>4</i>5</p> is handled, <body> holds one <p>
\* with text 1, <b> with text 2 and <i> with text 3, then an <i> with text
\* 4, then text 5.
C15_Misnested ==
    Handled("misnested") =>
        Shape(p, DocId) =
            DocumentOf(<< <<"p", << <<"#text", <<"1">> >>,
                                    <<"b", << <<"#text", <<"2">> >>,
                                              <<"i", << <<"#text", <<"3">> >> >> >> >> >>,
                                    <<"i", << <<"#text", <<"4">> >> >> >>,
                                    <<"#text", <<"5">> >> >> >> >>)

\* parse has returned the document of the misnested input; the adoption
\* agency ran for </b> and for </i>.
C15_Witness ==
    /\ Handled("misnested")
    /\ Returned
    /\ p.aaOuter >= 1
    /\ Len(p.entryHeap) = 2

\* C16: once <table>a<tr><td>b</td></tr></table> is handled, the text a is
\* the previous sibling of <table> in <body>, and <table> holds a <tbody>
\* that holds <tr><td>b</td></tr>.
C16_Fostered ==
    Handled("fostered") =>
        Shape(p, DocId) =
            DocumentOf(<< <<"#text", <<"a">> >>,
                          <<"table",
                            << <<"tbody",
                                 << <<"tr",
                                      << <<"td", << <<"#text", <<"b">> >> >> >> >> >> >> >> >> >> >>)

\* parse has returned the document of the foster-parenting input; the text
\* a was inserted before the table.
C16_Witness ==
    /\ Handled("fostered")
    /\ Returned
    /\ \E i \in 1..Len(p.muts) :
           /\ p.muts[i][1] = "insertTextBefore"
           /\ p.muts[i][4] = <<"a">>
           /\ getTagName(p, p.muts[i][2]) = "body"

Solidus == "nonVoidHtmlElementStartTagWithTrailingSolidus"

\* The positions of the errors the step has reported.
NewErrors == (Len(p.errors) + 1)..Len(p'.errors)

\* C17: with a parse-error sink, when the dispatch of a token is over: if
\* the token was a self-closing start tag that no handler acknowledged, the
\* dispatch has reported nonVoidHtmlElementStartTagWithTrailingSolidus, once
\* and last; if it was acknowledged, or was not a self-closing start tag,
\* the dispatch has not reported that error.
C17_TrailingSolidus ==
    [][ (/\ Dispatches
         /\ p.options.onParseError
         /\ ~p'.crashed
         /\ p'.currentToken.location = fed + hist.eofs + 1)
        => IF /\ p'.currentToken.type = "START_TAG"
              /\ p'.currentToken.selfClosing
              /\ ~p'.ackSelfClosing
           THEN /\ NewErrors # {}
                /\ \A i \in NewErrors : p'.errors[i] = Solidus <=> i = Len(p'.errors)
           ELSE \A i \in NewErrors : p'.errors[i] # Solidus ]_vars

\* <desc/> was acknowledged in foreign content, after <div/> was reported
\* and <br/> was acknowledged in HTML content.
C17_Witness ==
    /\ IsTag(p.currentToken, "START_TAG", "desc")
    /\ p.currentToken.selfClosing
    /\ p.ackSelfClosing
    /\ Cardinality({i \in 1..Len(p.errors) : p.errors[i] = Solidus}) = 1
    /\ \E n \in 1..Len(p.nodes) : getTagName(p, n) = "br"
    /\ \E n \in 1..Len(p.nodes) : getTagName(p, n) = "div"

\* The parser records source-code locations: its tokens and its text nodes
\* carry one.
RecordsLocations(s) ==
    /\ s.options.sourceCodeLocationInfo
    /\ s.currentToken.type # "NONE" => s.currentToken.location # 0
    /\ \A n \in 1..Len(s.nodes) : isTextNode(s, n) => s.nodes[n].loc.start # 0

\* C18: a parser constructed with an onParseError sink records source-code
\* locations whatever sourceCodeLocationInfo the caller passed: constructed
\* with false it is at every step the same parser as constructed with true,
\* while the parser without a sink records them only when asked to.
C18_SinkEnablesLocations ==
    /\ shadow[1].options.onParseError
    /\ shadow[2].options.onParseError
    /\ shadow[1] = shadow[2]
    /\ RecordsLocations(shadow[1])
    /\ ~p.options.onParseError /\ ~p.options.sourceCodeLocationInfo
    /\ \A n \in 1..Len(p.nodes) : p.nodes[n].loc.start = 0

\* Text was inserted: the parser with the sink gave its node a location,
\* the parser without any option did not.
C18_Witness ==
    /\ hist.dispatched >= 2
    /\ Len(shadow[1].errors) >= 1
    /\ \E n \in 1..Len(p.nodes) :
           /\ isTextNode(p, n) /\ isTextNode(shadow[1], n)
           /\ p.nodes[n].loc.start = 0
           /\ shadow[1].nodes[n].loc.start # 0

\* The tree below `node` as a node-by-node deep comparison sees it: the
\* node's kind, name, namespace, attributes and data, its children in
\* order and, for a template, its content.
RECURSIVE Tree(_, _)
Tree(s, node) ==
    [kind |-> s.nodes[node].kind,
     tagName |-> s.nodes[node].tagName,
     ns |-> s.nodes[node].ns,
     attrs |-> s.nodes[node].attrs,
     data |-> s.nodes[node].data,
     childNodes |-> [i \in 1..Len(s.nodes[node].childNodes) |->
                        Tree(s, s.nodes[node].childNodes[i])],
     content |-> IF s.nodes[node].content = 0 THEN <<>>
                 ELSE <<Tree(s, s.nodes[node].content)>>]

\* The document has been serialized and shadow[1] has parsed the html.
Reparsed ==
    /\ profile \in {"roundtrip", "markup"}
    /\ pc = "idle"
    /\ hist.done
    /\ Len(shadow) = 1
    /\ ~p.crashed

Elements(s) == {n \in 1..Len(s.nodes) : s.nodes[n].kind = "element"}

RECURSIVE Inside(_, _, _)
\* The node has an ancestor element named in tagNames.
Inside(s, node, tagNames) ==
    LET parent == s.nodes[node].parentNode
    IN  IF parent = 0 THEN FALSE
        ELSE \/ s.nodes[parent].kind = "element" /\ s.nodes[parent].tagName \in tagNames
             \/ Inside(s, parent, tagNames)

\* The open elements that a start tag of this name closes or is ignored in.
ClosedBy(tagName) ==
    (IF tagName \in {"a", "form"} THEN {tagName} ELSE {})
        \cup (IF tagName \in {"p", "div", "pre", "form"} THEN {"p"} ELSE {})

\* The tree has a plaintext element, a pre element whose text starts with a
\* line feed, an a or form element inside one of the same name, or a p,
\* div, pre or form element inside a p element.
Unstable(s) ==
    \E n \in Elements(s) :
        \/ s.nodes[n].tagName = "plaintext"
        \/ Inside(s, n, ClosedBy(s.nodes[n].tagName))
        \/ /\ s.nodes[n].tagName = "pre"
           /\ s.nodes[n].childNodes # <<>>
           /\ isTextNode(s, s.nodes[n].childNodes[1])
           /\ s.nodes[s.nodes[n].childNodes[1]].data[1] = LINE_FEED

InsertionMode ==
    { "INITIAL", "BEFORE_HTML", "BEFORE_HEAD", "IN_HEAD", "IN_HEAD_NO_SCRIPT", "AFTER_HEAD",
      "IN_BODY", "TEXT", "IN_TABLE", "IN_TABLE_TEXT", "IN_CAPTION", "IN_COLUMN_GROUP",
      "IN_TABLE_BODY", "IN_ROW", "IN_CELL", "IN_SELECT", "IN_SELECT_IN_TABLE", "IN_TEMPLATE",
      "AFTER_BODY", "IN_FRAMESET", "AFTER_FRAMESET", "AFTER_AFTER_BODY",
      "AFTER_AFTER_FRAMESET" }

\* C22: at every token boundary insertionMode is one of the twenty-three
\* insertion modes.
C22_ModeDefined ==
    Cardinality(InsertionMode) = 23 /\ (~p.crashed => p.insertionMode \in InsertionMode)

\* The entry the walk looks at for stack index i (0-based): the context
\* element's at index 0 of a fragment parser.
WalkedTagID(s, i) ==
    IF i = 0 /\ s.fragmentContext # 0 THEN s.fragmentContextID
    ELSE s.openElements.tagIDs[i + 1]

RECURSIVE SelectMode(_, _)
\* SELECT: scan below for TABLE without passing a TEMPLATE.
SelectMode(s, i) ==
    IF i <= 0 THEN "IN_SELECT"
    ELSE IF s.openElements.tagIDs[i + 1] = "template" THEN "IN_SELECT"
    ELSE IF s.openElements.tagIDs[i + 1] = "table" THEN "IN_SELECT_IN_TABLE"
    ELSE SelectMode(s, i - 1)

RECURSIVE ModeOfWalk(_, _)
\* The mode the walk from index i down arrives at, by the map of the
\* specification; "none" for the top of an empty template-mode stack.
ModeOfWalk(s, i) ==
    IF i < 0 THEN "IN_BODY"
    ELSE LET tid == WalkedTagID(s, i)
         IN  IF tid = "tr" THEN "IN_ROW"
             ELSE IF tid \in {"tbody", "thead", "tfoot"} THEN "IN_TABLE_BODY"
             ELSE IF tid = "caption" THEN "IN_CAPTION"
             ELSE IF tid = "colgroup" THEN "IN_COLUMN_GROUP"
             ELSE IF tid = "table" THEN "IN_TABLE"
             ELSE IF tid = "body" THEN "IN_BODY"
             ELSE IF tid = "frameset" THEN "IN_FRAMESET"
             ELSE IF tid \in {"td", "th"} /\ i # 0 THEN "IN_CELL"
             ELSE IF tid = "head" /\ i # 0 THEN "IN_HEAD"
             ELSE IF tid = "select" THEN SelectMode(s, i - 1)
             ELSE IF tid = "template"
             THEN (IF s.tmplInsertionModeStack = <<>> THEN "none"
                   ELSE Head(s.tmplInsertionModeStack))
             ELSE IF tid = "html"
             THEN (IF s.headElement # 0 THEN "AFTER_HEAD" ELSE "BEFORE_HEAD")
             ELSE ModeOfWalk(s, i - 1)

ExpectedMode(s) == ModeOfWalk(s, stackTop(s))

\* The step handled </table>, </select> or </template> by popping the
\* stack down to the element and resetting the insertion mode.
ResetStep ==
    /\ Dispatches
    /\ ~p'.crashed
    /\ p'.currentToken.type = "END_TAG"
    /\ p'.currentToken.tagName \in {"table", "select", "template"}
    /\ Len(p'.openElements.items) < Len(p.openElements.items)

\* C23: _resetInsertionMode sets the mode the top-down walk of the open
\* stack arrives at (the context element standing in at index 0 of a
\* fragment parser, IN_BODY when nothing matches), on every parser state
\* and in every step that resets the mode.
C23_ResetFollowsWalk ==
    [][ /\ (~p'.crashed /\ ExpectedMode(p') # "none")
            => _resetInsertionMode(p').insertionMode = ExpectedMode(p')
        /\ (ResetStep /\ ExpectedMode(p') # "none")
            => p'.insertionMode = ExpectedMode(p') ]_vars

\* </select> has reset a fragment parser whose stack holds the root alone
\* to the mode of its context element, <tr>.
C23_Witness ==
    /\ p.fragmentContextID = "tr"
    /\ Len(p.openElements.items) = 1
    /\ p.currentToken.type = "END_TAG"
    /\ p.currentToken.tagName = "select"
    /\ \E n \in Elements(p) : p.nodes[n].tagName = "select"
    /\ p.insertionMode = "IN_ROW"
    /\ ExpectedMode(p) = "IN_ROW"

\* C24: foster parenting is enabled only while tokenInTable runs:
\* fosterParentingEnabled is false at every token boundary.
C24_FosterParentingCleared == ~p.fosterParentingEnabled

\* tokenInTable has foster-parented a node before a table, and foster
\* parenting is disabled again.
C24_Witness ==
    /\ ~p.fosterParentingEnabled
    /\ \E i \in 1..Len(p.muts) :
           /\ p.muts[i][1] \in {"insertBefore", "insertTextBefore"}
           /\ \E t \in Elements(p) :
                  /\ p.nodes[t].tagName = "table"
                  /\ p.nodes[t].parentNode = p.muts[i][2]

RECURSIVE FosterWalk(_, _)
\* The foster location the walk from stack position i (1-based) down
\* arrives at.
FosterWalk(s, i) ==
    IF i < 1
    THEN [parent |-> IF s.openElements.items = <<>> THEN 0 ELSE s.openElements.items[1],
          beforeElement |-> 0]
    ELSE LET openElement == s.openElements.items[i]
             tid == s.openElements.tagIDs[i]
         IN  IF tid = "template" /\ s.nodes[openElement].ns = HTML
             THEN [parent |-> s.nodes[openElement].content, beforeElement |-> 0]
             ELSE IF tid = "table" /\ s.nodes[openElement].parentNode # 0
             THEN [parent |-> s.nodes[openElement].parentNode, beforeElement |-> openElement]
             ELSE IF tid = "table"
             THEN [parent |-> IF i = 1 THEN 0 ELSE s.openElements.items[i - 1],
                   beforeElement |-> 0]
             ELSE FosterWalk(s, i - 1)

\* An open table that has no parent.
ParentlessTables(s) ==
    {i \in 1..Len(s.openElements.items) :
        /\ s.openElements.tagIDs[i] = "table"
        /\ s.nodes[s.openElements.items[i]].parentNode = 0}

\* C25: the foster location is the one the top-down walk of the open
\* stack arrives at: the content of an HTML template, before a table that
\* has a parent, in the element below a parentless table, else in
\* stack[0].
C25_FosterLocation ==
    ~p.crashed =>
        _findFosterParentingLocation(p) = FosterWalk(p, Len(p.openElements.items))

\* A text was foster-parented into the element below a table the host had
\* detached.
C25_Witness ==
    /\ \E i \in ParentlessTables(p) :
           /\ i = Len(p.openElements.items)
           /\ _findFosterParentingLocation(p).parent = p.openElements.items[i - 1]
           /\ _findFosterParentingLocation(p).beforeElement = 0
           /\ LET kids == p.nodes[p.openElements.items[i - 1]].childNodes
              IN  kids # <<>> /\ isTextNode(p, kids[Len(kids)])
    /\ p.muts[Len(p.muts)][1] = "insertText"

RECURSIVE ReplayedInBody(_, _)
\* The buffered tokens from the i-th on, each through the in-body path
\* with foster parenting.
ReplayedInBody(s, i) ==
    IF s.crashed \/ i > Len(s.pendingCharacterTokens) THEN s
    ELSE LET saved == s.fosterParentingEnabled
             s1 == modeInBody([s EXCEPT !.fosterParentingEnabled = TRUE],
                              s.pendingCharacterTokens[i])
         IN  ReplayedInBody([s1 EXCEPT !.fosterParentingEnabled = saved], i + 1)

RECURSIVE InsertedNormally(_, _)
\* The buffered tokens from the i-th on, each inserted as characters.
InsertedNormally(s, i) ==
    IF i > Len(s.pendingCharacterTokens) THEN s
    ELSE InsertedNormally(_insertCharacters(s, s.pendingCharacterTokens[i]), i + 1)

\* The buffered character tokens hold a non-whitespace one.
HasNonWhitespace(s) ==
    \E i \in 1..Len(s.pendingCharacterTokens) : s.pendingCharacterTokens[i].type = "CHARACTER"

\* What a non-character token is to do in "in table text".
FlushedAndReprocessed(s, token) ==
    LET s1 == IF HasNonWhitespace(s) THEN ReplayedInBody(s, 1) ELSE InsertedNormally(s, 1)
    IN  _processToken([s1 EXCEPT !.insertionMode = s.originalInsertionMode], token)

\* A step that hands a non-character token to "in table text".
TableTextFlushStep ==
    /\ Dispatches
    /\ ~p.crashed
    /\ p.insertionMode = "IN_TABLE_TEXT"
    /\ p'.currentToken.type \notin {"CHARACTER", "WHITESPACE_CHARACTER", "NULL_CHARACTER"}

\* A step that enters "in table text".
TableTextEntryStep ==
    /\ Dispatches
    /\ p.insertionMode # "IN_TABLE_TEXT"
    /\ p'.insertionMode = "IN_TABLE_TEXT"

\* C26: a non-character token in "in table text" replays every buffered
\* token through in-body with foster parenting when one of them is not
\* whitespace and inserts each normally otherwise, restores the mode saved
\* on entry and is processed again once; on entry the buffer holds the
\* entering token alone.
C26_TableTextFlush ==
    [][ /\ TableTextFlushStep =>
              p' = FlushedAndReprocessed(
                       [Emit(p, p'.currentToken) EXCEPT !.skipNextNewLine = FALSE,
                                                        !.currentToken = p'.currentToken],
                       p'.currentToken)
        /\ TableTextEntryStep =>
              /\ p'.pendingCharacterTokens = <<p'.currentToken>>
              /\ p'.originalInsertionMode = p.insertionMode ]_vars

\* <b> has flushed the buffered "x" and line feed: both stand as one text
\* in front of the table, the mode is back at "in table" and <b> is open,
\* itself foster-parented between the text and the table.
C26_Witness ==
    /\ ~p.crashed
    /\ p.currentToken.type = "START_TAG" /\ p.currentToken.tagName = "b"
    /\ Len(p.pendingCharacterTokens) = 2 /\ HasNonWhitespace(p)
    /\ p.insertionMode = "IN_TABLE" /\ p.originalInsertionMode = "IN_TABLE"
    /\ currentTagId(p) = "b"
    /\ Cardinality({n \in 1..Len(p.nodes) : p.nodes[n].tagName = "table"}) = 1
    /\ \E t \in 1..Len(p.nodes) :
           /\ isTextNode(p, t) /\ p.nodes[t].data = <<"x", LINE_FEED>>
           /\ \E par \in 1..Len(p.nodes) :
                  \E k \in 1..(Len(p.nodes[par].childNodes) - 2) :
                      /\ p.nodes[par].childNodes[k] = t
                      /\ p.nodes[p.nodes[par].childNodes[k + 1]].tagName = "b"
                      /\ p.nodes[p.nodes[par].childNodes[k + 2]].tagName = "table"

\* The entries in front of the nearest marker or open element (the
\* frontmost entry is the first of the list).
UnopenedInFront(s) ==
    LET es == Entries(s)
    IN  {i \in 1..Len(es) :
            \A j \in 1..i : es[j] # MARKER /\ ~contains(s, EntryElement(s, es[j]))}

\* C27: reconstruction changes nothing when the list is empty or its
\* frontmost entry is a marker or an open element; otherwise the entries
\* in front of the nearest marker or open element are re-inserted oldest
\* first, each as a new element made from its stored token that the entry
\* then references and that is on the open stack.
C27_Reconstruct ==
    ~p.crashed =>
        LET es == Entries(p)
            k == Cardinality(UnopenedInFront(p))
            r == _reconstructActiveFormattingElements(p)
            n == Len(p.openElements.items)
        IN  /\ (es = <<>> \/ es[1] = MARKER \/ contains(p, EntryElement(p, es[1]))) <=> k = 0
            /\ k = 0 => r = p
            /\ (k > 0 /\ ~r.crashed) =>
                  /\ Entries(r) = es
                  /\ Len(r.nodes) = Len(p.nodes) + k
                  /\ r.openElements.items =
                         p.openElements.items \o [j \in 1..k |-> Len(p.nodes) + j]
                  /\ \A j \in 1..k :
                         LET entry == es[k + 1 - j]
                             element == Len(p.nodes) + j
                         IN  /\ EntryElement(r, entry) = element
                             /\ EntryToken(r, entry) = EntryToken(p, entry)
                             /\ r.nodes[element].tagName = EntryToken(p, entry).tagName
                             /\ r.nodes[element].attrs = EntryToken(p, entry).attrs
                             /\ r.nodes[element].ns = p.nodes[EntryElement(p, entry)].ns
                             /\ r.openElements.tagIDs[n + j] = EntryToken(p, entry).tagID
                  /\ \A i \in (k + 1)..Len(es) :
                         es[i] # MARKER => r.entryHeap[es[i]] = p.entryHeap[es[i]]

\* A character has reconstructed <b> and <i> after the <p> around them
\* was closed: the two entries reference new elements on top of the open
\* stack, <b> below <i>, next to the <p> that holds the old ones.
C27_Witness ==
    /\ ~p.crashed
    /\ p.currentToken.type = "CHARACTER"
    /\ Len(Entries(p)) = 2 /\ Entries(p)[1] # MARKER /\ Entries(p)[2] # MARKER
    /\ LET n == Len(p.openElements.items)
           i == EntryElement(p, Entries(p)[1])
           b == EntryElement(p, Entries(p)[2])
       IN  /\ n >= 2
           /\ p.openElements.items[n] = i /\ p.openElements.items[n - 1] = b
           /\ p.nodes[i].tagName = "i" /\ p.nodes[b].tagName = "b"
           /\ p.nodes[i].parentNode = b
           /\ p.nodes[p.nodes[b].parentNode].tagName = "body"
           /\ \E o \in 1..Len(p.nodes) :
                  /\ o # b /\ p.nodes[o].tagName = "b"
                  /\ p.nodes[p.nodes[o].parentNode].tagName = "p"
                  /\ \E o2 \in 1..Len(p.nodes) :
                         o2 # i /\ p.nodes[o2].tagName = "i" /\ p.nodes[o2].parentNode = o

\* The end tags the adoption agency is tried on.
FormattingEndTags == {EndTag("a"), EndTag("b"), EndTag("i")}

\* element is on the open stack with no scoping element above it.
ElementInScope(s, element) ==
    \E at \in 1..Len(s.openElements.items) :
        /\ s.openElements.items[at] = element
        /\ \A i \in (at + 1)..Len(s.openElements.items) :
               ~SCOPING_ELEMENT(s.openElements.tagIDs[i], ItemNs(s, i))

\* The formatting entry of the end tag is found and its element is open
\* but not in scope.
FoundNotInScope(s, token) ==
    LET entry == getElementEntryInScopeWithTagName(s, token.tagName)
    IN  /\ ~s.crashed
        /\ entry # NullEntry
        /\ contains(s, EntryElement(s, entry))
        /\ ~ElementInScope(s, EntryElement(s, entry))

\* C28: when the formatting entry is found and its element is open but
\* not in scope, the adoption agency reports a parse error to the sink
\* and ends with the open stack and the formatting list as they were.
C28_NotInScopeReported ==
    \A token \in FormattingEndTags :
        FoundNotInScope(p, token) =>
            LET r == callAdoptionAgency(p, token)
            IN  /\ p.options.onParseError => Len(r.errors) > Len(p.errors)
                /\ r.openElements = p.openElements
                /\ r.activeFormattingElements = p.activeFormattingElements

\* s and t are the same parser, the count of outer iterations aside.
SameParser(s, t) == [s EXCEPT !.aaOuter = 0] = [t EXCEPT !.aaOuter = 0]

\* C29: when the formatting entry is found and its element is not on the
\* open stack, the adoption agency removes that entry from the list and
\* ends; when no entry is found it runs the generic in-body end-tag
\* procedure once and ends.
C29_EntryClosedOrMissing ==
    \A token \in FormattingEndTags :
        ~p.crashed =>
            LET entry == getElementEntryInScopeWithTagName(p, token.tagName)
                r == callAdoptionAgency(p, token)
            IN  /\ (entry # NullEntry /\ ~contains(p, EntryElement(p, entry))) =>
                      /\ Entries(r) = SelectSeq(Entries(p), LAMBDA x : x # entry)
                      /\ Len(Entries(r)) = Len(Entries(p)) - 1
                      /\ SameParser([r EXCEPT !.activeFormattingElements.entries = Entries(p)], p)
                /\ entry = NullEntry => SameParser(r, genericEndTagInBody(p, token))

\* The fourth </b> after four <b>: the first <b> had lost its entry to the
\* three-entry limit, the generic procedure has popped it and only <html>
\* and <body> are open.
C29_Witness ==
    /\ ~p.crashed
    /\ profile = "noentry"
    /\ hist.dispatched = 2 * (NOAH_ARK_CAPACITY + 1)
    /\ p.currentToken.type = "END_TAG" /\ p.currentToken.tagName = "b"
    /\ Entries(p) = <<>>
    /\ Len(p.openElements.items) = 2
    /\ Cardinality({n \in 1..Len(p.nodes) : p.nodes[n].tagName = "b"}) = NOAH_ARK_CAPACITY + 1

\* The position on the open stack of the element of the formatting entry
\* of the end tag, 0 when the adoption agency does not get to step 2 or
\* a special element is open above it.
NoFurthestBlockAt(s, token) ==
    LET entry == getElementEntryInScopeWithTagName(s, token.tagName)
        items == s.openElements.items
        ats == {i \in 1..Len(items) : entry # NullEntry /\ items[i] = EntryElement(s, entry)}
        at == CHOOSE i \in ats : \A j \in ats : i >= j
    IN  IF s.crashed \/ ats = {} THEN 0
        ELSE IF ~ElementInScope(s, items[at]) THEN 0
        ELSE IF \E i \in (at + 1)..Len(items) :
                    s.nodes[items[i]].tagName \in SPECIAL_ELEMENTS(s.nodes[items[i]].ns)
        THEN 0
        ELSE at

\* C30: with no furthest block the adoption agency pops the open stack
\* down to and including the formatting element, removes the formatting
\* entry from the list and ends, the tree left as it is but for the end
\* locations of the popped elements.
C30_NoFurthestBlock ==
    \A token \in FormattingEndTags :
        LET at == NoFurthestBlockAt(p, token)
            entry == getElementEntryInScopeWithTagName(p, token.tagName)
            r == callAdoptionAgency(p, token)
        IN  at > 0 =>
                /\ r.openElements.items = SubSeq(p.openElements.items, 1, at - 1)
                /\ r.openElements.tagIDs = SubSeq(p.openElements.tagIDs, 1, at - 1)
                /\ Entries(r) = SelectSeq(Entries(p), LAMBDA x : x # entry)
                /\ Len(Entries(r)) = Len(Entries(p)) - 1
                /\ Len(r.nodes) = Len(p.nodes)
                /\ \A n \in 1..Len(p.nodes) :
                       [r.nodes[n] EXCEPT !.loc = NoLoc] = [p.nodes[n] EXCEPT !.loc = NoLoc]
                /\ r.entryHeap = p.entryHeap

\* </b> after <b><a>: both are popped, the entry of <b> is gone and the
\* entry of the closed <a> remains.
C30_Witness ==
    /\ ~p.crashed
    /\ p.currentToken.type = "END_TAG" /\ p.currentToken.tagName = "b"
    /\ Len(p.openElements.items) = 2
    /\ Len(Entries(p)) = 1 /\ Entries(p)[1] # MARKER
    /\ LET a == EntryElement(p, Entries(p)[1])
       IN  /\ p.nodes[a].tagName = "a"
           /\ p.nodes[a].parentNode # 0
           /\ p.nodes[p.nodes[a].parentNode].tagName = "b"
           /\ p.nodes[p.nodes[p.nodes[a].parentNode].parentNode].tagName = "body"

\* The parser as callAdoptionAgency hands it to aaReplaceFormattingElement
\* in an iteration that starts at s with a furthest block.
AABeforeReplace(s, formattingElementEntry, furthestBlock) ==
    LET formattingElement == EntryElement(s, formattingElementEntry)
        r == aaInnerLoop([s EXCEPT !.activeFormattingElements.bookmark = formattingElementEntry],
                         furthestBlock, formattingElement, furthestBlock,
                         getCommonAncestor(s, furthestBlock), 0)
        commonAncestor == getCommonAncestor(r.s, formattingElement)
        s1 == detachNode(r.s, r.lastElement)
    IN  IF commonAncestor # 0
        THEN aaInsertLastNodeInCommonAncestor(s1, commonAncestor, r.lastElement)
        ELSE s1

RECURSIVE AAReplaceInputs(_, _, _)
\* The arguments of every call of aaReplaceFormattingElement that
\* callAdoptionAgency makes from its i-th iteration on.
AAReplaceInputs(s, token, i) ==
    IF s.crashed \/ ~(i < AA_OUTER_LOOP_ITER) THEN <<>>
    ELSE LET r1 == aaObtainFormattingElementEntry(s, token)
             r2 == aaObtainFurthestBlock(r1.s, r1.entry)
             s3 == AABeforeReplace(r2.s, r1.entry, r2.furthestBlock)
         IN  IF r1.entry = NullEntry THEN <<>>
             ELSE IF r2.furthestBlock = 0 THEN <<>>
             ELSE IF s3.crashed THEN <<>>
             ELSE <<[s |-> s3, furthestBlock |-> r2.furthestBlock, entry |-> r1.entry]>>
                  \o AAReplaceInputs(aaReplaceFormattingElement(s3, r2.furthestBlock, r1.entry),
                                     token, i + 1)

\* C31: aaReplaceFormattingElement puts the new entry into the formatting
\* list immediately after the bookmark entry (in front of it in the
\* newest-first array) and removes the old entry, the bookmark being in
\* the list whenever the inner loop has left it; on the open stack the old
\* formatting element is gone and the new one sits immediately after the
\* furthest block.
C31_ReplaceFormattingElement ==
    \A token \in FormattingEndTags :
        LET calls_ == AAReplaceInputs(p, token, 0)
        IN  \A c \in 1..Len(calls_) :
                LET s == calls_[c].s
                    r == aaReplaceFormattingElement(s, calls_[c].furthestBlock, calls_[c].entry)
                    es == Entries(s)
                    bi == IndexOf(es, s.activeFormattingElements.bookmark)
                    newEntry == Len(s.entryHeap) + 1
                    newElement == Len(s.nodes) + 1
                    items == SelectSeq(s.openElements.items,
                                       LAMBDA x : x # EntryElement(s, calls_[c].entry))
                    fi == IndexOf(items, calls_[c].furthestBlock)
                IN  /\ bi > 0
                    /\ Entries(r) =
                           SelectSeq(SubSeq(es, 1, bi - 1) \o <<newEntry>> \o SubSeq(es, bi, Len(es)),
                                     LAMBDA x : x # calls_[c].entry)
                    /\ EntryElement(r, newEntry) = newElement
                    /\ EntryToken(r, newEntry) = EntryToken(s, calls_[c].entry)
                    /\ fi > 0
                    /\ r.openElements.items =
                           SubSeq(items, 1, fi) \o <<newElement>> \o SubSeq(items, fi + 1, Len(items))
                    /\ r.nodes[newElement].tagName = EntryToken(s, calls_[c].entry).tagName

\* </b> after <b><i><div>: <i> was recreated below the <div>, the new <b>
\* went into the <div> and was popped by the next iteration; the entry of
\* <i> references the new <i>.
C31_Witness ==
    /\ ~p.crashed
    /\ p.currentToken.type = "END_TAG" /\ p.currentToken.tagName = "b"
    /\ p.openElements.tagIDs = <<"html", "body", "i", "div">>
    /\ Len(Entries(p)) = 1 /\ Entries(p)[1] # MARKER
    /\ EntryElement(p, Entries(p)[1]) = p.openElements.items[3]
    /\ \E n \in 1..Len(p.nodes) :
           /\ p.nodes[n].tagName = "b"
           /\ p.nodes[n].parentNode = p.openElements.items[4]

\* C32: </template> with an open template leaves the open stack cut
\* below the topmost template, the formatting list cleared to the last
\* marker, the template-mode stack one entry shorter and the insertion
\* mode reset; with no open template it reports
\* endTagWithoutMatchingOpenElement and changes nothing else.
C32_TemplateClosure ==
    ~p.crashed =>
        LET token == EndTag("template")
            r == endTagInHead(p, token)
            top == CHOOSE i \in OpenTemplates(p) : \A j \in OpenTemplates(p) : i >= j
            es == Entries(p)
            mi == IndexOf(es, MARKER)
        IN  IF OpenTemplates(p) # {}
            THEN /\ ~r.crashed
                 /\ r.openElements.items = SubSeq(p.openElements.items, 1, top - 1)
                 /\ r.openElements.tagIDs = SubSeq(p.openElements.tagIDs, 1, top - 1)
                 /\ Entries(r) = IF mi = 0 THEN <<>> ELSE SubSeq(es, mi + 1, Len(es))
                 /\ p.tmplInsertionModeStack # <<>>
                 /\ r.tmplInsertionModeStack = Tail(p.tmplInsertionModeStack)
                 /\ r.insertionMode = _resetInsertionMode(r).insertionMode
            ELSE /\ r.errors = Append(p.errors, "endTagWithoutMatchingOpenElement")
                 /\ [r EXCEPT !.errors = p.errors] = p

\* </template> after <template><b>: the <b> and the template are popped,
\* the entry of <b> and the marker are gone, the template-mode stack is
\* empty and the mode is back at "in head".
C32_Witness ==
    /\ ~p.crashed
    /\ p.fragmentContext = 0
    /\ p.currentToken.type = "END_TAG" /\ p.currentToken.tagName = "template"
    /\ p.openElements.tagIDs = <<"html", "head">>
    /\ Entries(p) = <<>>
    /\ p.tmplInsertionModeStack = <<>>
    /\ p.insertionMode = "IN_HEAD"
    /\ \E n \in 1..Len(p.nodes) :
           /\ p.nodes[n].tagName = "b"
           /\ p.nodes[p.nodes[n].parentNode].kind = "fragment"

\* The start tags "in template" is tried on.
HeadCategoryTags ==
    {"base", "basefont", "bgsound", "link", "meta", "noframes", "script", "style",
     "template", "title"}

TemplateStartTags ==
    {StartTag(t) : t \in {"caption", "colgroup", "tbody", "tfoot", "thead", "col", "tr",
                          "td", "th", "b", "div", "svg", "template", "title", "meta"}}

\* The mode a start tag is to be processed in.
TemplateModeOf(tagName) ==
    CASE tagName \in {"caption", "colgroup", "tbody", "tfoot", "thead"} -> "IN_TABLE"
      [] tagName = "col" -> "IN_COLUMN_GROUP"
      [] tagName = "tr" -> "IN_TABLE_BODY"
      [] tagName \in {"td", "th"} -> "IN_ROW"
      [] OTHER -> "IN_BODY"

\* startTagInTemplate has rewritten the top of the template-mode stack
\* and insertionMode to the mode of the tag, processed the token in that
\* mode and left the depth of the stack as it was.
RewrittenAndProcessed(s, token) ==
    LET mode == TemplateModeOf(token.tagName)
        r == startTagInTemplate(s, token)
    IN  /\ s.tmplInsertionModeStack # <<>>
        /\ r = _processToken([s EXCEPT !.tmplInsertionModeStack[1] = mode,
                                       !.insertionMode = mode], token)
        /\ Len(r.tmplInsertionModeStack) = Len(s.tmplInsertionModeStack)
        /\ r.tmplInsertionModeStack[1] = mode

\* C33 (as stated): in IN_TEMPLATE every start tag rewrites the top of
\* the template-mode stack and insertionMode to the mode of its tag, is
\* processed in that mode, and leaves the stack depth unchanged.
C33_AnyStartTagRewrites ==
    (~p.crashed /\ p.insertionMode = "IN_TEMPLATE") =>
        \A token \in TemplateStartTags : RewrittenAndProcessed(p, token)

\* C33 (as amended): in IN_TEMPLATE every start tag other than base,
\* basefont, bgsound, link, meta, noframes, script, style, template and
\* title rewrites the top of the template-mode stack and insertionMode to
\* the mode of its tag, is processed in that mode, and leaves the stack
\* depth unchanged; those ten are handled by the in-head rules with no
\* rewrite.
C33_OtherStartTagRewrites ==
    (~p.crashed /\ p.insertionMode = "IN_TEMPLATE") =>
        \A token \in TemplateStartTags :
            IF token.tagName \in HeadCategoryTags
            THEN startTagInTemplate(p, token) = startTagInHead(p, token)
            ELSE RewrittenAndProcessed(p, token)

\* <td> after <template>: the template-mode stack holds IN_ROW alone, the
\* cell is open in the template and the mode is "in cell".
C33_Witness ==
    /\ ~p.crashed
    /\ p.currentToken.type = "START_TAG" /\ p.currentToken.tagName = "td"
    /\ p.tmplInsertionModeStack = <<"IN_ROW">>
    /\ p.insertionMode = "IN_CELL"
    /\ p.openElements.tagIDs = <<"html", "head", "template", "td">>

\* The table-structure tags "in select in table" closes the select on.
TableStructureNames == {"caption", "table", "tbody", "tfoot", "thead", "tr", "td", "th"}

\* The positions of the open HTML <select> elements.
OpenSelects(s) ==
    {i \in 1..Len(s.openElements.items) :
        s.openElements.tagIDs[i] = "select" /\ ItemNs(s, i) = HTML}

\* The parser after the select is closed and the token processed again.
SelectClosedAndReprocessed(s, token) ==
    LET top == CHOOSE i \in OpenSelects(s) : \A j \in OpenSelects(s) : i >= j
    IN  _processToken(_resetInsertionMode(popUntilElementPopped(s, s.openElements.items[top])),
                      token)

\* In "in select in table" a <select> is open above the root.
SelectAboveRoot(s) == OpenSelects(s) # {} /\ 1 \notin OpenSelects(s)

ExitStartTags ==
    {StartTag("div"), StartTag("b"), StartTag("table"),
     StartTagA("font", <<Attr("color", "red")>>)}

\* The positions of the open elements that are HTML or an integration
\* point.
HtmlOrIntegrationPoints(s) ==
    {i \in 1..Len(s.openElements.items) :
        \/ ItemNs(s, i) = HTML
        \/ isHtmlIntegrationPoint(s.openElements.tagIDs[i], ItemNs(s, i),
                                  s.nodes[s.openElements.items[i]].attrs)
        \/ ItemNs(s, i) = MATHML
              /\ s.openElements.tagIDs[i] \in {"mi", "mo", "mn", "ms", "mtext"}}

\* C35: a start tag that causes exit from foreign content, in a document
\* parser, pops the stack until the current element is HTML or an
\* integration point and is processed again by the rules of the mode; in
\* a fragment parser it is inserted as an element of the namespace of
\* the adjusted current node.
C35_ExitFromForeignContent ==
    \A token \in ExitStartTags :
        (/\ ~p.crashed
         /\ p.considerForeignContent
         /\ _shouldProcessTokenInForeignContent(p, token)) =>
            LET r == startTagInForeignContent(p, token)
                hits == HtmlOrIntegrationPoints(p)
                top == CHOOSE i \in hits : \A j \in hits : i >= j
                n == Len(p.openElements.items)
            IN  IF p.fragmentContext = 0
                THEN /\ hits # {}
                     /\ top < n
                     /\ r = _processToken(shortenToLength(p, top), token)
                ELSE /\ Len(r.nodes) = Len(p.nodes) + 1
                     /\ r.openElements.items = Append(p.openElements.items, Len(r.nodes))
                     /\ r.nodes[Len(r.nodes)].tagName = token.tagName
                     /\ r.nodes[Len(r.nodes)].ns = getNamespaceURI(p, _getAdjustedCurrentElement(p))
                     /\ r.nodes[Len(r.nodes)].ns # HTML
                     /\ r.nodes[Len(r.nodes)].parentNode = current(p)
                     /\ r.insertionMode = p.insertionMode

\* A document parser after <svg><desc><svg><div>: the inner svg element was
\* popped, the walk stopped at the desc integration point, and the div was
\* inserted there as an HTML element.
C35_Witness ==
    /\ ~p.crashed
    /\ p.fragmentContext = 0
    /\ p.currentToken.type = "START_TAG" /\ p.currentToken.tagName = "div"
    /\ p.openElements.tagIDs = <<"html", "body", "svg", "desc", "div">>
    /\ LET div == p.openElements.items[5]
           desc == p.openElements.items[4]
       IN  /\ p.nodes[div].ns = HTML
           /\ p.nodes[div].parentNode = desc
           /\ p.nodes[desc].ns = SVG
           /\ \E n \in 1..Len(p.nodes) :
                  /\ p.nodes[n].tagName = "svg"
                  /\ p.nodes[n].parentNode = desc
                  /\ p.nodes[n].childNodes = <<>>

\* The end tags the foreign-content handler is tried on.
ForeignEndTags ==
    {EndTag("foreignobject"), EndTag("svg"), EndTag("desc"), EndTag("div")}

\* The positions above the root whose element is HTML or has the token's
\* name when lower-cased.
EndTagWalkStops(s, token) ==
    {i \in 2..Len(s.openElements.items) :
        \/ ItemNs(s, i) = HTML
        \/ toLowerCase(s.nodes[s.openElements.items[i]].tagName) = token.tagName}

\* C36: an end tag in foreign content stops at the topmost element above
\* the root that is HTML or carries the token's name case-insensitively.
\* At an HTML element the token is processed by the rules of the insertion
\* mode; at a name match the stack is cut to the elements below the match,
\* which was not the root; with no such element nothing changes.
C36_EndTagInForeignContent ==
    \A token \in ForeignEndTags :
        (/\ ~p.crashed
         /\ p.considerForeignContent
         /\ _shouldProcessTokenInForeignContent(p, token)) =>
            LET r == endTagInForeignContent(p, token)
                stops == EndTagWalkStops(p, token)
                top == CHOOSE i \in stops : \A j \in stops : i >= j
            IN  IF stops = {} THEN r = p
                ELSE IF ItemNs(p, top) = HTML THEN r = _processToken(p, token)
                ELSE /\ r = shortenToLength(p, top - 1)
                     /\ r.openElements.items = SubSeq(p.openElements.items, 1, top - 1)
                     /\ r.openElements.items[1] = p.openElements.items[1]
                     /\ r.insertionMode = p.insertionMode

\* A document parser after <svg><foreignobject></foreignobject>: the end
\* tag closed the element whose stored name is foreignObject.
C36_Witness ==
    /\ ~p.crashed
    /\ p.fragmentContext = 0
    /\ p.currentToken.type = "END_TAG" /\ p.currentToken.tagName = "foreignobject"
    /\ p.openElements.tagIDs = <<"html", "body", "svg">>
    /\ \E n \in 1..Len(p.nodes) :
           /\ p.nodes[n].tagName = "foreignObject"
           /\ p.nodes[n].ns = SVG
           /\ p.nodes[n].parentNode = p.openElements.items[3]

\* ------------------------------------------- parser feedback simulator
\* The tokenizer's "no more input in this chunk" token.
HibernationToken == Token("HIBERNATION", "", <<>>, FALSE, <<>>)

\* Longest run of getNextToken calls on one simulator.
MaxSimulatorCalls == 4

\* new ParserFeedbackSimulator(tokenizer): the constructor enters the HTML
\* namespace.  namespaceStackTop is Len(namespaceStack) - 1.  `fetched` are
\* the tokens the tokenizer has handed out, `returned` the tokens
\* getNextToken has returned.
NewSimulator ==
    [ constructed |-> TRUE,
      namespaceStack |-> <<HTML>>,
      inForeignContent |-> FALSE,
      currentNamespace |-> HTML,
      skipNextNewLine |-> FALSE,
      tokenizer |-> [state |-> "DATA", allowCDATA |-> FALSE],
      fetched |-> <<>>,
      returned |-> <<>> ]

_enterNamespace(sim, namespace) ==
    [sim EXCEPT !.namespaceStack = Append(@, namespace),
                !.inForeignContent = namespace # HTML,
                !.currentNamespace = namespace,
                !.tokenizer.allowCDATA = namespace # HTML]

\* namespaceStack[namespaceStackTop] of an empty stack is undefined ("").
_leaveCurrentNamespace(sim) ==
    LET stack == IF sim.namespaceStack = <<>> THEN <<>>
                 ELSE SubSeq(sim.namespaceStack, 1, Len(sim.namespaceStack) - 1)
        namespace == IF stack = <<>> THEN "" ELSE stack[Len(stack)]
    IN  [sim EXCEPT !.namespaceStack = stack,
                    !.currentNamespace = namespace,
                    !.inForeignContent = namespace # HTML,
                    !.tokenizer.allowCDATA = namespace # HTML]

_ensureTokenizerMode(sim, tn) ==
    CASE tn \in {"textarea", "title"} -> [sim EXCEPT !.tokenizer.state = "RCDATA"]
      [] tn = "plaintext" -> [sim EXCEPT !.tokenizer.state = "PLAINTEXT"]
      [] tn = "script" -> [sim EXCEPT !.tokenizer.state = "SCRIPT_DATA"]
      [] tn \in {"style", "iframe", "xmp", "noembed", "noframes", "noscript"} ->
             [sim EXCEPT !.tokenizer.state = "RAWTEXT"]
      [] OTHER -> sim

_handleStartTagToken(sim, token) ==
    LET s1 == CASE token.tagName = "svg" -> _enterNamespace(sim, SVG)
                [] token.tagName = "math" -> _enterNamespace(sim, MATHML)
                [] OTHER -> sim
        currentNs == s1.currentNamespace
        adjusted == adjustTokenXMLAttrs(
                        CASE currentNs = MATHML -> adjustTokenMathMLAttrs(token)
                          [] currentNs = SVG ->
                                 adjustTokenSVGAttrs(adjustTokenSVGTagName(token))
                          [] OTHER -> token)
    IN  IF s1.inForeignContent
        THEN IF causesExit(token)
             THEN [sim |-> _leaveCurrentNamespace(s1), token |-> token]
             ELSE [sim |-> IF /\ ~adjusted.selfClosing
                              /\ isIntegrationPoint(adjusted.tagName, currentNs,
                                                    adjusted.attrs, "")
                           THEN _enterNamespace(s1, HTML) ELSE s1,
                   token |-> adjusted]
        ELSE [sim |-> _ensureTokenizerMode(
                          IF token.tagName \in {"pre", "textarea", "listing"}
                          THEN [s1 EXCEPT !.skipNextNewLine = TRUE] ELSE s1,
                          token.tagName),
              token |-> IF token.tagName = "image"
                        THEN [token EXCEPT !.tagName = "img"] ELSE token]

_handleEndTagToken(sim, token) ==
    LET n == Len(sim.namespaceStack)
        previousNs == IF n >= 2 THEN sim.namespaceStack[n - 1] ELSE ""
        tn == IF previousNs = SVG THEN adjustTokenSVGTagName(token).tagName
              ELSE token.tagName
        s1 == IF ~sim.inForeignContent
              THEN IF isIntegrationPoint(tn, previousNs, token.attrs, "")
                   THEN _leaveCurrentNamespace(sim) ELSE sim
              ELSE IF \/ token.tagName = "svg" /\ sim.currentNamespace = SVG
                      \/ token.tagName = "math" /\ sim.currentNamespace = MATHML
                   THEN _leaveCurrentNamespace(sim) ELSE sim
    IN  [sim |-> s1,
         token |-> IF s1.currentNamespace = SVG THEN adjustTokenSVGTagName(token)
                   ELSE token]

\* ParserFeedbackSimulator.getNextToken; `tokens` are the tokens the
\* tokenizer hands out from now on, `used` counts the ones taken.
RECURSIVE feedbackGetNextToken(_, _, _)
feedbackGetNextToken(sim, tokens, used) ==
    LET token == tokens[used + 1]
        s1 == IF token.type # "HIBERNATION"
              THEN [sim EXCEPT !.skipNextNewLine = FALSE] ELSE sim
    IN  CASE token.type = "START_TAG" ->
                 [used |-> used + 1] @@ _handleStartTagToken(sim, token)
          [] token.type = "END_TAG" ->
                 [used |-> used + 1] @@ _handleEndTagToken(sim, token)
          [] token.type = "NULL_CHARACTER" /\ sim.inForeignContent ->
                 [sim |-> sim, used |-> used + 1,
                  token |-> [token EXCEPT !.type = "CHARACTER",
                                          !.chars = <<REPLACEMENT_CHARACTER>>]]
          [] OTHER ->
                 IF ~sim.skipNextNewLine
                 THEN [sim |-> sim, token |-> token, used |-> used + 1]
                 ELSE IF /\ token.type = "WHITESPACE_CHARACTER"
                         /\ token.chars[1] = LINE_FEED
                 THEN IF Len(token.chars) = 1
                      THEN feedbackGetNextToken(s1, tokens, used + 1)
                      ELSE [sim |-> s1, used |-> used + 1,
                            token |-> [token EXCEPT !.chars = Tail(@)]]
                 ELSE [sim |-> s1, token |-> token, used |-> used + 1]

\* The tokens the tokenizer hands to the simulator.
SimulatorAlphabet ==
    { StartTag("pre"), StartTag("textarea"), StartTag("b"), StartTag("svg"),
      EndTag("pre"), Chars("WHITESPACE_CHARACTER", <<LINE_FEED>>),
      Chars("WHITESPACE_CHARACTER", <<LINE_FEED, " ">>), X,
      Chars("NULL_CHARACTER", <<"\\0">>), HibernationToken, EOFToken }

\* One call of getNextToken by the owner of the simulator (the SAX parser's
\* loop).  A call that drops a line feed takes a second token.
SimulatorGetNextToken ==
    /\ simulator.constructed
    /\ Len(simulator.returned) < MaxSimulatorCalls
    /\ IF simulator.returned = <<>> THEN TRUE
       ELSE simulator.returned[Len(simulator.returned)].type # "EOF"
    /\ \E t1, t2 \in SimulatorAlphabet :
           LET r == feedbackGetNextToken(simulator, <<t1, t2>>, 0)
           IN  /\ r.used = 1 => t2 = t1
               /\ simulator' =
                      [r.sim EXCEPT !.fetched = @ \o SubSeq(<<t1, t2>>, 1, r.used),
                                    !.returned = Append(@, r.token)]
    /\ UNCHANGED <<p, shadow, pc, fed, profile, api, calls, hist, preprocessor>>

\* A simulator on a fresh tokenizer; no parser runs.
InitSimulator ==
    /\ profile = "doc"
    /\ api = "parse"
    /\ p = Bootstrap(FALSE, FALSE, TRUE)
    /\ shadow = <<>>
    /\ pc = "idle"
    /\ fed = 0
    /\ calls = <<>>
    /\ hist = [dispatched |-> 0, eofs |-> 0, done |-> FALSE]
    /\ simulator = NewSimulator
    /\ preprocessor = NoPreprocessor

NextSimulator == SimulatorGetNextToken

SpecSimulator == InitSimulator /\ [][NextSimulator]_vars

\* The start tags after which the next line feed is to be skipped.
NewLineSkippingTags == {"pre", "listing", "textarea"}

\* A call of getNextToken on a simulator whose flag is set and whose
\* tokenizer hands out something other than Hibernation.
SimulatorFlaggedCall ==
    /\ simulator.constructed
    /\ simulator'.constructed
    /\ simulator.skipNextNewLine
    /\ Len(simulator'.fetched) > Len(simulator.fetched)
    /\ simulator'.fetched[Len(simulator.fetched) + 1].type # "HIBERNATION"

\* C37 on the simulator: the flag concerns the one token that follows the
\* start tag that set it.  After the call that takes that token the flag
\* is false, unless the token returned is again a start tag that sets it.
C37_SimulatorFlagSpent ==
    [][ SimulatorFlaggedCall =>
            LET token == simulator'.returned[Len(simulator'.returned)]
            IN  simulator'.skipNextNewLine =>
                    /\ token.type = "START_TAG"
                    /\ token.tagName \in NewLineSkippingTags ]_vars

\* The tokens tried on a parser whose flag is set.
TokensAfterNewLineSkippingTag ==
    { Chars("WHITESPACE_CHARACTER", <<LINE_FEED>>),
      Chars("WHITESPACE_CHARACTER", <<LINE_FEED, " ">>),
      Chars("WHITESPACE_CHARACTER", <<" ">>), X,
      StartTag("b"), StartTag("pre"), EndTag("pre"), Comment }

\* The parser's loop on a parser whose flag is set: a token that is one
\* line feed is dropped, a longer whitespace token loses its leading line
\* feed, any other token is processed as if the flag had not been set; the
\* flag is false afterwards unless the token is a start tag that sets it.
ParserFlagSpent ==
    \A tok \in TokensAfterNewLineSkippingTag :
        (~p.crashed /\ ~p.stopped /\ p.skipNextNewLine) =>
            LET r == LoopBody(p, tok, 1)
                clear == [p EXCEPT !.skipNextNewLine = FALSE]
                isLineFeed == tok.type = "WHITESPACE_CHARACTER" /\ tok.chars[1] = LINE_FEED
            IN  /\ IF isLineFeed /\ Len(tok.chars) = 1
                   THEN /\ r.nodes = p.nodes
                        /\ r.openElements = p.openElements
                        /\ r.insertionMode = p.insertionMode
                   ELSE IF isLineFeed
                   THEN r = LoopBody(clear, [tok EXCEPT !.chars = Tail(@)], 1)
                   ELSE r = LoopBody(clear, tok, 1)
                /\ r.skipNextNewLine =>
                       tok.type = "START_TAG" /\ tok.tagName \in NewLineSkippingTags

\* <pre> has set the parser's flag.
ParserFlagSet == ~p.crashed /\ ~p.stopped /\ p.skipNextNewLine

\* The fields of the parser that the tree construction goes by.
TreeState(s) ==
    [ nodes |-> s.nodes,
      openElements |-> s.openElements,
      activeFormattingElements |-> s.activeFormattingElements,
      entryHeap |-> s.entryHeap,
      tmplInsertionModeStack |-> s.tmplInsertionModeStack,
      insertionMode |-> s.insertionMode,
      originalInsertionMode |-> s.originalInsertionMode,
      skipNextNewLine |-> s.skipNextNewLine,
      stopped |-> s.stopped,
      crashed |-> s.crashed ]

\* _runParsingLoop(null) on tokens that are all there: no Hibernation, no
\* script handler.
RECURSIVE ParseAtOnce(_, _, _)
ParseAtOnce(s, tokens, i) ==
    IF i > Len(tokens) \/ s.crashed \/ ~LoopGuard(s) THEN s
    ELSE ParseAtOnce(LoopBody(s, tokens[i], i), tokens, i + 1)

\* The step in which the tokenizer returns Hibernation.
HibernationStep ==
    /\ "tokens" \in DOMAIN hist
    /\ pc = "loop" /\ pc' = "exit"
    /\ LoopGuard(p)
    /\ fed' = fed /\ hist'.eofs = hist.eofs

\* C38: the step in which the tokenizer returns Hibernation dispatches no
\* token and leaves the insertion mode, the open stack, the formatting list
\* and the template-mode stack as they are; and whatever the positions at
\* which the input ran out and the loop was entered again, the parser is in
\* the tree state of one loop run over the same tokens.
C38_Hibernation ==
    /\ [][ HibernationStep =>
               /\ hist'.dispatched = hist.dispatched
               /\ hist'.tokens = hist.tokens
               /\ p'.insertionMode = p.insertionMode
               /\ p'.openElements = p.openElements
               /\ p'.activeFormattingElements = p.activeFormattingElements
               /\ p'.tmplInsertionModeStack = p.tmplInsertionModeStack
               /\ p'.nodes = p.nodes ]_vars
    /\ []( ("tokens" \in DOMAIN hist /\ ~p.crashed) =>
               TreeState(p) =
                   TreeState(ParseAtOnce(Bootstrap(TRUE, TRUE, TRUE), hist.tokens, 1)) )

\* The chunked loop got <pre>, ran out of input, was entered again and got
\* a line feed and "x": the line feed was dropped and the text of <pre> is
\* "x".
C38_Witness ==
    /\ "tokens" \in DOMAIN hist
    /\ api = "stream"
    /\ ~p.crashed
    /\ hist.cuts = {1}
    /\ hist.tokens = <<StartTag("pre"), Chars("WHITESPACE_CHARACTER", <<LINE_FEED>>), X>>
    /\ p.openElements.tagIDs = <<"html", "body", "pre">>
    /\ LET pre == p.nodes[p.openElements.items[3]]
       IN  /\ Len(pre.childNodes) = 1
           /\ p.nodes[pre.childNodes[1]].data = <<"x">>

\* ------------------------------------------------------- preprocessor
\* Code units of the input: a letter, the two line ends, a control
\* character, a high and a low surrogate.  PAIR is the code point of a
\* surrogate pair, EOF what advance returns at the end of the buffer.
CARRIAGE_RETURN == "\r"

CONTROL == "\\u0001"

HIGH_SURROGATE == "\\uD83D"

LOW_SURROGATE == "\\uDE00"

PAIR == "\\u{1F600}"

EOF == "EOF"

\* Longest input the preprocessor is given.
MaxHtmlLength == 3

\* advance is not called once this many errors have been reported or the
\* line counter has reached this line.
MaxReported == 3

MaxLine == 4

isSurrogate(cp) == cp \in {HIGH_SURROGATE, LOW_SURROGATE}

isSurrogatePair(cp) == cp = LOW_SURROGATE

getSurrogatePairCodePoint(cp1, cp2) == PAIR

isControlCodePoint(cp) == cp = CONTROL

isUndefinedCodePoint(cp) == FALSE

\* new Preprocessor(options), with the waterline the owner has set.
\* `called`, `before`, `returned` and `reported` are the last call, the
\* position it started from, what advance returned last and the errors
\* handed to onParseError; `consumed` counts the calls of advance that no
\* call of retreat has taken back.
NewPreprocessor(onParseError, bufferWaterline) ==
    [ constructed |-> TRUE,
      html |-> <<>>,
      pos |-> -1,
      lastGapPos |-> -1,
      gapStack |-> <<>>,
      skipNextNewLine |-> FALSE,
      lastChunkWritten |-> FALSE,
      endOfChunkHit |-> FALSE,
      bufferWaterline |-> bufferWaterline,
      isEol |-> FALSE,
      lineStartPos |-> 0,
      droppedBufferSize |-> 0,
      line |-> 1,
      onParseError |-> onParseError,
      lastErrOffset |-> -1,
      consumed |-> 0,
      called |-> "constructor",
      before |-> [pos |-> -1, col |-> 0, offset |-> -1, line |-> 1],
      returned |-> EOF,
      reported |-> <<>> ]

col(q) == q.pos - q.lineStartPos + (IF q.lastGapPos # q.pos THEN 1 ELSE 0)

offset(q) == q.droppedBufferSize + q.pos

getError(q, code) ==
    [code |-> code, startLine |-> q.line, startCol |-> col(q), startOffset |-> offset(q)]

\* Preprocessor._err
preprocessorErr(q, code) ==
    IF q.onParseError /\ q.lastErrOffset # offset(q)
    THEN [q EXCEPT !.lastErrOffset = offset(q),
                   !.reported = Append(@, getError(q, code))]
    ELSE q

_addGap(q) ==
    [q EXCEPT !.gapStack = Append(@, q.lastGapPos), !.lastGapPos = q.pos]

_processSurrogate(q, cp) ==
    IF q.pos # Len(q.html) - 1 /\ isSurrogatePair(q.html[q.pos + 2])
    THEN [q |-> _addGap([q EXCEPT !.pos = @ + 1]),
          cp |-> getSurrogatePairCodePoint(cp, q.html[q.pos + 2])]
    ELSE IF q.pos = Len(q.html) - 1 /\ ~q.lastChunkWritten
    THEN [q |-> [q EXCEPT !.endOfChunkHit = TRUE], cp |-> EOF]
    ELSE [q |-> preprocessorErr(q, "surrogateInInputStream"), cp |-> cp]

_checkForProblematicCharacters(q, cp) ==
    IF isControlCodePoint(cp) THEN preprocessorErr(q, "controlCharacterInInputStream")
    ELSE IF isUndefinedCodePoint(cp) THEN preprocessorErr(q, "noncharacterInInputStream")
    ELSE q

\* (cp > 0x1f && cp < 0x7f) || LF || CR || (cp > 0x9f && cp < 0xfdd0)
isCommonValidRange(q, cp) ==
    \/ ~q.onParseError
    \/ cp \in {"a", LINE_FEED, CARRIAGE_RETURN, HIGH_SURROGATE, LOW_SURROGATE}

\* Preprocessor.advance: the preprocessor afterwards and the code point
\* returned.
RECURSIVE advance(_)
advance(q0) ==
    LET q1 == [q0 EXCEPT !.pos = @ + 1]
        q2 == IF q1.isEol
              THEN [q1 EXCEPT !.isEol = FALSE, !.line = @ + 1, !.lineStartPos = q1.pos]
              ELSE q1
    IN  IF q2.pos >= Len(q2.html)
        THEN [q |-> [q2 EXCEPT !.endOfChunkHit = ~q2.lastChunkWritten], cp |-> EOF]
        ELSE LET cp == q2.html[q2.pos + 1]
                 q3 == [q2 EXCEPT !.isEol = IF cp = LINE_FEED THEN TRUE ELSE @,
                                  !.skipNextNewLine = FALSE]
                 r == IF isSurrogate(cp) THEN _processSurrogate(q3, cp)
                      ELSE [q |-> q3, cp |-> cp]
             IN  IF cp = CARRIAGE_RETURN
                 THEN [q |-> [q2 EXCEPT !.isEol = TRUE, !.skipNextNewLine = TRUE],
                       cp |-> LINE_FEED]
                 ELSE IF cp = LINE_FEED /\ q2.skipNextNewLine
                 THEN advance(_addGap([q2 EXCEPT !.isEol = TRUE, !.line = @ - 1,
                                                 !.skipNextNewLine = FALSE]))
                 ELSE IF isCommonValidRange(r.q, r.cp) THEN r
                 ELSE [q |-> _checkForProblematicCharacters(r.q, r.cp), cp |-> r.cp]

\* Preprocessor.retreat.  The pop of an empty gap stack is not reached: the
\* last gap position is that of a pushed gap whenever pos equals it and pos
\* is not negative.
retreat(q) ==
    LET q1 == IF q.pos = q.lastGapPos
              THEN [q EXCEPT !.lastGapPos = IF q.gapStack = <<>> THEN -1
                                            ELSE q.gapStack[Len(q.gapStack)],
                             !.gapStack = IF @ = <<>> THEN @
                                          ELSE SubSeq(@, 1, Len(@) - 1),
                             !.pos = @ - 1]
              ELSE q
    IN  [q1 EXCEPT !.pos = @ - 1, !.isEol = FALSE]

dropParsedChunk(q) ==
    IF q.pos > q.bufferWaterline
    THEN [q EXCEPT !.html = SubSeq(@, q.pos + 1, Len(@)),
                   !.lineStartPos = @ - q.pos,
                   !.droppedBufferSize = @ + q.pos,
                   !.pos = 0,
                   !.lastGapPos = -1,
                   !.gapStack = <<>>]
    ELSE q

write(q, chunk, isLastChunk) ==
    [q EXCEPT !.html = @ \o chunk, !.endOfChunkHit = FALSE,
              !.lastChunkWritten = isLastChunk]

insertHtmlAtCurrentPos(q, chunk) ==
    [q EXCEPT !.html = SubSeq(@, 1, q.pos + 1) \o chunk \o SubSeq(@, q.pos + 2, Len(@)),
              !.endOfChunkHit = FALSE]

\* The call `name` has taken the preprocessor from `q` to `r`.
Called(q, r, name) ==
    [r EXCEPT !.called = name,
              !.before = [pos |-> q.pos, col |-> col(q), offset |-> offset(q),
                          line |-> q.line]]

\* The chunks the owner writes.
Chunks ==
    { <<"a">>, <<CARRIAGE_RETURN>>, <<LINE_FEED>>, <<CARRIAGE_RETURN, LINE_FEED>>,
      <<CONTROL>>, <<HIGH_SURROGATE>>, <<HIGH_SURROGATE, LOW_SURROGATE>> }

\* The waterlines the owner sets.
BufferWaterlines == {0, 2}

\* The owner writes the next chunk.  It has taken back an advance that ran
\* into the end of the buffer before it asks for more input.
PreprocessorWrite ==
    /\ preprocessor.constructed
    /\ ~preprocessor.lastChunkWritten
    /\ preprocessor.pos < Len(preprocessor.html)
    /\ \E chunk \in Chunks, isLastChunk \in BOOLEAN :
           /\ preprocessor.droppedBufferSize + Len(preprocessor.html) + Len(chunk)
                  <= MaxHtmlLength
           /\ preprocessor' = Called(preprocessor,
                                     write(preprocessor, chunk, isLastChunk), "write")
    /\ UNCHANGED <<p, shadow, pc, fed, profile, api, calls, hist, simulator>>

\* The owner consumes a code point; it does not advance again past the end
\* of the buffer.
PreprocessorAdvance ==
    /\ preprocessor.constructed
    /\ preprocessor.pos < Len(preprocessor.html)
    /\ Len(preprocessor.reported) < MaxReported
    /\ preprocessor.line < MaxLine
    /\ LET r == advance(preprocessor)
       IN  preprocessor' = [Called(preprocessor, r.q, "advance")
                                EXCEPT !.returned = r.cp, !.consumed = @ + 1]
    /\ UNCHANGED <<p, shadow, pc, fed, profile, api, calls, hist, simulator>>

\* The owner takes back one advance that it has not taken back yet.
PreprocessorRetreat ==
    /\ preprocessor.constructed
    /\ preprocessor.pos >= 0
    /\ preprocessor.consumed > 0
    /\ preprocessor' = [Called(preprocessor, retreat(preprocessor), "retreat")
                            EXCEPT !.consumed = @ - 1]
    /\ UNCHANGED <<p, shadow, pc, fed, profile, api, calls, hist, simulator>>

\* The owner lets the parsed part of the buffer go; of what it has consumed
\* only the code unit at pos is left to take back.
PreprocessorDropParsedChunk ==
    /\ preprocessor.constructed
    /\ preprocessor' =
           [Called(preprocessor, dropParsedChunk(preprocessor), "dropParsedChunk")
                EXCEPT !.consumed = IF preprocessor.pos > preprocessor.bufferWaterline /\ @ > 1
                                    THEN 1 ELSE @]
    /\ UNCHANGED <<p, shadow, pc, fed, profile, api, calls, hist, simulator>>

\* A preprocessor with and without a parse-error sink; no parser runs.
InitPreprocessor ==
    /\ profile = "doc"
    /\ api = "parse"
    /\ p = Bootstrap(FALSE, FALSE, TRUE)
    /\ shadow = <<>>
    /\ pc = "idle"
    /\ fed = 0
    /\ calls = <<>>
    /\ hist = [dispatched |-> 0, eofs |-> 0, done |-> FALSE]
    /\ simulator = NoSimulator
    /\ \E onParseError \in BOOLEAN, bufferWaterline \in BufferWaterlines :
           preprocessor = NewPreprocessor(onParseError, bufferWaterline)

NextPreprocessor ==
    \/ PreprocessorWrite
    \/ PreprocessorAdvance
    \/ PreprocessorRetreat
    \/ PreprocessorDropParsedChunk

SpecPreprocessor == InitPreprocessor /\ [][NextPreprocessor]_vars

\* What the input stream preprocessing makes of the code units h: a line
\* feed for CR LF and for CR, the pair's code point for a surrogate pair.
RECURSIVE Normalized(_)
Normalized(h) ==
    IF h = <<>> THEN <<>>
    ELSE IF Len(h) >= 2 /\ h[1] = CARRIAGE_RETURN /\ h[2] = LINE_FEED
    THEN <<LINE_FEED>> \o Normalized(SubSeq(h, 3, Len(h)))
    ELSE IF Len(h) >= 2 /\ h[1] = HIGH_SURROGATE /\ h[2] = LOW_SURROGATE
    THEN <<PAIR>> \o Normalized(SubSeq(h, 3, Len(h)))
    ELSE IF h[1] = CARRIAGE_RETURN THEN <<LINE_FEED>> \o Normalized(Tail(h))
    ELSE <<h[1]>> \o Normalized(Tail(h))

\* advance called until it returns EOF: the code points returned, and the
\* preprocessor after the call that returned EOF.
RECURSIVE AdvanceToEOF(_, _)
AdvanceToEOF(q, out) ==
    LET r == advance(q)
    IN  IF r.cp = EOF THEN [q |-> r.q, out |-> out]
        ELSE AdvanceToEOF(r.q, Append(out, r.cp))

LineFeeds(out) == Cardinality({i \in 1..Len(out) : out[i] = LINE_FEED})

\* The input written so far, were it the whole input of a fresh
\* preprocessor that is read in one run: every CR comes out as a line
\* feed, a line feed behind a CR does not come out, and the line counter
\* has gone up by one per line feed that came out.
ForwardPassNormalizes ==
    (preprocessor.constructed /\ preprocessor.droppedBufferSize = 0) =>
        LET r == AdvanceToEOF(write(NewPreprocessor(FALSE, 0), preprocessor.html, TRUE),
                              <<>>)
        IN  /\ r.out = Normalized(preprocessor.html)
            /\ r.q.line = 1 + LineFeeds(r.out)

\* A call of retreat that follows a call of advance.
RetreatAfterAdvance ==
    /\ preprocessor.constructed
    /\ preprocessor.called = "advance"
    /\ preprocessor'.called = "retreat"

\* C39, the part on retreat: the call of retreat that follows a call of
\* advance leaves pos at the value it had before that advance.
C39_RetreatRestoresPos ==
    [][RetreatAfterAdvance => preprocessor'.pos = preprocessor.before.pos]_vars

\* No two of the errors handed to onParseError are for one input offset.
NoErrorTwice ==
    preprocessor.constructed =>
        \A i, j \in 1..Len(preprocessor.reported) :
            i # j => preprocessor.reported[i].startOffset
                         # preprocessor.reported[j].startOffset

\* A call of dropParsedChunk leaves the absolute offset and the column as
\* they were.
DropKeepsPosition ==
    [][ (preprocessor.constructed /\ preprocessor'.called = "dropParsedChunk"
         /\ preprocessor' # preprocessor) =>
            /\ offset(preprocessor') = offset(preprocessor)
            /\ col(preprocessor') = col(preprocessor) ]_vars

\* C40: whatever is advanced over and taken back, no input offset has two
\* errors reported for it, and dropParsedChunk leaves the absolute offset
\* (droppedBufferSize + pos) and the column as they were.
C40_ErrorsOnceAndDropKeepsPosition ==
    /\ []NoErrorTwice
    /\ DropKeepsPosition
====
